---- MODULE Spec2Model ----
(***************************************************************************)
(* liquibase-clickhouse: the pending-set calculation and the dependency    *)
(* resolution of ChangelogParser.get_unapplied_changes, and the per-change *)
(* lifecycle that the `update` command drives against the changelog state  *)
(* table (ChangelogStateManager), the renderer and the executor.           *)
(*                                                                         *)
(* A change identity is the pair <<changelog_file, id>>, as in the keys of *)
(* change_lookup / in_degrees / graph.  Identities are only ever compared  *)
(* for equality by the code.                                               *)
(***************************************************************************)
EXTENDS Integers, Sequences, FiniteSets, TLC

VARIABLES
    files,                    \* the definition files: path -> list of entries
    load_stack,               \* active calls of _parse_file_recursively, innermost last
    processed_files,          \* paths already visited by the load
    all_parsed_changes,       \* changes accumulated by the load
    command,                  \* per run: "update" or "dry_run"
    log,                      \* log records written so far, in order
    all_defined_changes,      \* result of get_all_changes(): the loaded change list
    history,                  \* rows of the changelog_state table, in insertion order
    calls,                    \* renderer / executor invocations, in call order
    pc,                       \* per run: position in update / get_unapplied_changes
    applied_changes_from_db,  \* per run: the set read by the one history query
    pending_changes,          \* per run: list of pending ChangeLog objects
    graph,                    \* per run: dependency node -> list of dependent nodes
    in_degrees,               \* per run: node -> number of active incoming edges
    queue,                    \* per run: Kahn's queue
    sorted_changes_nodes,     \* per run: Kahn's output (node ids)
    changes_to_apply,         \* per run: list returned by get_unapplied_changes
    idx,                      \* per run: position of the `for change in changes_to_apply` loop
    error,                    \* per run: the ValueError raised by resolution, if any
    exit_code,                \* per run: process result once pc = "done"
    now_ms,                   \* id generator: the clock, in milliseconds
    last_timestamp_ms,        \* id generator: _last_timestamp_ms
    counter,                  \* id generator: _counter
    unique_id,                \* id generator: the value returned last, -1 before any call
    lock_owner,               \* id generator: the thread that holds _lock, 0 if none
    thread_pc,                \* per thread: position in generate_unique_id_int
    thread_ts,                \* per thread: its local current_timestamp_ms
    issued                    \* the calls in the order they entered `with _lock`: thread, id

vars == <<files, load_stack, processed_files, all_parsed_changes, command, log,
          now_ms, last_timestamp_ms, counter, unique_id,
          lock_owner, thread_pc, thread_ts, issued,
          all_defined_changes, history, calls, pc, applied_changes_from_db,
          pending_changes, graph, in_degrees, queue, sorted_changes_nodes,
          changes_to_apply, idx, error, exit_code>>

loader_vars == <<files, load_stack, processed_files, all_parsed_changes>>

thread_vars == <<lock_owner, thread_pc, thread_ts, issued>>

id_generator_vars == <<now_ms, last_timestamp_ms, counter, unique_id, thread_vars>>

resolver_vars == <<applied_changes_from_db, pending_changes, graph, in_degrees,
                   queue, sorted_changes_nodes, changes_to_apply, error>>

-----------------------------------------------------------------------------
(* Bounds of the explored inputs.                                          *)

MaxChanges == 3     \* entries in the loaded change list
MaxDeps == 2        \* depends_on entries of one change
MaxRefs == 3        \* depends_on entries of the whole loaded list
MaxUpdateRefs == 1  \* depends_on entries of the whole loaded list, update specification
MaxRows == 2        \* history rows left by earlier runs, update specification
MaxMasterEntries == 3  \* entries of the master changelog file, load specification
MaxSubEntries == 2     \* entries of the included changelog file, load specification
MaxFaults == 1         \* entries of the files that fail validation
MaxUpdateEntries == 2  \* entries of each changelog file, update-from-files specification
MaxFileRefs == 2       \* depends_on items of the files, update-from-files specification
MaxDeriveEntries == 3  \* entries of the master changelog file, id derivation
MaxTicks == 2          \* milliseconds the clock advances, id generator
MaxCallsPerTick == 1002  \* calls of the id generator within one millisecond
MaxPreviewEntries == 2 \* entries of the master file when dry_run is followed by update
MaxPreviewSubEntries == 1 \* entries of an included file there
MaxPreviewRefs == 1    \* dependency references per file system there
MaxPreviewRows == 1    \* rows of earlier runs when dry_run is followed by update
MaxThreadCalls == 4    \* calls of the id generator by the threads together
MaxConcurrentChanges == 2  \* entries in the loaded list, concurrent invocations

Runs == {1, 2}

Threads == {1, 2}

Paths == {"master.yaml", "sub.yaml"}
ChangeIds == {"a", "b"}
Identities == Paths \X ChangeIds

(* The ids that the entries of the definition files get: an explicit id or *)
(* the id derived from the script name and the position of the entry.      *)
FileChangeIds == {"a_0", "a_1", "a_2"}
FileIdentities == Paths \X FileChangeIds
AllIdentities == Identities \cup FileIdentities

NoError == [kind |-> "none", nodes |-> {}]

-----------------------------------------------------------------------------
(* Sequence helpers.                                                       *)

Range(s) == {s[i] : i \in DOMAIN s}

RECURSIVE SumLen(_, _)
SumLen(f, n) == IF n = 0 THEN 0 ELSE Len(f[n]) + SumLen(f, n - 1)

Before(s, x, y) ==
    \E i, j \in DOMAIN s : i < j /\ s[i] = x /\ s[j] = y

NoDuplicates(s) == \A i, j \in DOMAIN s : s[i] = s[j] => i = j

-----------------------------------------------------------------------------
(* ChangeLog objects and the node id the parser derives from them.         *)

ChangeLog(path, id, deps, script, index) ==
    [changelog_file |-> path, id |-> id, type |-> "sql",
     depends_on |-> deps, file_path |-> script, index |-> index]

NodeId(c) == <<c.changelog_file, c.id>>

NodeIds(changes) == [i \in DOMAIN changes |-> NodeId(changes[i])]

(* change_lookup = {(c.changelog_file, c.id): c for c in all_defined_changes}: *)
(* a later entry with the same key replaces an earlier one.                  *)
ChangeLookup(all) ==
    [n \in Range(NodeIds(all)) |->
        all[CHOOSE i \in DOMAIN all :
                /\ NodeId(all[i]) = n
                /\ \A j \in DOMAIN all : NodeId(all[j]) = n => j <= i]]

-----------------------------------------------------------------------------
(* The changelog_state table (ChangelogStateManager).  The field `run` is  *)
(* bookkeeping of the model: the run that inserted the row, 0 for a row    *)
(* that was there before the first modelled run.                           *)

StateRow(change_id, changelog_path, status, error_message, run) ==
    [change_id |-> change_id, changelog_path |-> changelog_path,
     status |-> status, error_message |-> error_message, run |-> run]

(* Mutant: log_start that inserts nothing. *)
LogStartRowsNothing(rows, change, changelog_path, run) == rows

(* log_start: INSERT one row with status 'pending'. *)
LogStartRows(rows, change, changelog_path, run) ==
    Append(rows, StateRow(change.id, changelog_path, "pending", "", run))

(* Mutant: update_status called with change_id and changelog_path swapped. *)
UpdateStatusRowsSwapped(rows, change_id, changelog_path, status, error_message) ==
    [i \in DOMAIN rows |->
        IF rows[i].change_id = changelog_path /\ rows[i].changelog_path = change_id
        THEN [rows[i] EXCEPT !.status = status, !.error_message = error_message]
        ELSE rows[i]]

(* Mutant: update_status with WHERE change_id = ... only. *)
UpdateStatusRowsAnyPath(rows, change_id, changelog_path, status, error_message) ==
    [i \in DOMAIN rows |->
        IF rows[i].change_id = change_id
        THEN [rows[i] EXCEPT !.status = status, !.error_message = error_message]
        ELSE rows[i]]

(* Mutant: update_status that does not store the error text. *)
UpdateStatusRowsNoMessage(rows, change_id, changelog_path, status, error_message) ==
    [i \in DOMAIN rows |->
        IF rows[i].change_id = change_id /\ rows[i].changelog_path = changelog_path
        THEN [rows[i] EXCEPT !.status = status]
        ELSE rows[i]]

(* update_status: ALTER TABLE ... UPDATE status, error_message             *)
(* WHERE change_id = ... AND changelog_path = ...  (every matching row).   *)
UpdateStatusRows(rows, change_id, changelog_path, status, error_message) ==
    [i \in DOMAIN rows |->
        IF rows[i].change_id = change_id /\ rows[i].changelog_path = changelog_path
        THEN [rows[i] EXCEPT !.status = status, !.error_message = error_message]
        ELSE rows[i]]

(* Mutant: the query with WHERE status != 'pending'. *)
AppliedFromRowsNotPending(rows) ==
    {<<rows[i].changelog_path, rows[i].change_id>> :
        i \in {j \in DOMAIN rows : rows[j].status # "pending"}}

(* Mutant: the query without its WHERE status = 'success'. *)
AppliedFromRowsAnyStatus(rows) ==
    {<<rows[i].changelog_path, rows[i].change_id>> : i \in DOMAIN rows}

(* SELECT changelog_path, change_id ... WHERE status = 'success', as a set *)
(* of (row[0], row[1]) tuples.                                             *)
AppliedFromRows(rows) ==
    {<<rows[i].changelog_path, rows[i].change_id>> :
        i \in {j \in DOMAIN rows : rows[j].status = "success"}}

-----------------------------------------------------------------------------
(* get_unapplied_changes: pending list, dependency graph, Kahn's algorithm. *)

(* Mutant: no change is filtered out. *)
PendingChangesUnfiltered(all, applied) == all

(* pending_changes: the defined changes whose identifier is not applied,   *)
(* in the order of all_defined_changes.                                    *)
PendingChanges(all, applied) ==
    SelectSeq(all, LAMBDA c : NodeId(c) \notin applied)

(* Keys of in_degrees in insertion order (first occurrence of each node).  *)
RECURSIVE KeyOrder(_)
KeyOrder(nodes) ==
    IF nodes = <<>> THEN <<>>
    ELSE LET front == KeyOrder(SubSeq(nodes, 1, Len(nodes) - 1))
             last == nodes[Len(nodes)]
         IN IF last \in Range(front) THEN front ELSE Append(front, last)

(* Mutant: every defined dependency is an edge, applied or not. *)
IsActiveDependencyIgnoresApplied(dep_node_id, change_lookup, applied) ==
    dep_node_id \in DOMAIN change_lookup

(* Mutant: every unapplied dependency is an edge, defined or not. *)
IsActiveDependencyIgnoresLookup(dep_node_id, change_lookup, applied) ==
    dep_node_id \notin applied

(* The test of line 282: the dependency is defined and not applied.        *)
IsActiveDependency(dep_node_id, change_lookup, applied) ==
    dep_node_id \in DOMAIN change_lookup /\ dep_node_id \notin applied

(* Mutant: the edge is recorded in the wrong direction. *)
RECURSIVE AddDependenciesReversed(_, _, _, _, _)
AddDependenciesReversed(node_id, deps, change_lookup, applied, st) ==
    IF deps = <<>> THEN st
    ELSE LET dep_node_id == Head(deps)
             st1 == IF IsActiveDependency(dep_node_id, change_lookup, applied)
                    THEN [graph |-> [st.graph EXCEPT ![node_id] = Append(@, dep_node_id)],
                          in_degrees |-> [st.in_degrees EXCEPT ![dep_node_id] = @ + 1]]
                    ELSE st
         IN AddDependenciesReversed(node_id, Tail(deps), change_lookup, applied, st1)

(* Mutant: a dependency of a change on itself adds no edge. *)
RECURSIVE AddDependenciesSkipsSelf(_, _, _, _, _)
AddDependenciesSkipsSelf(node_id, deps, change_lookup, applied, st) ==
    IF deps = <<>> THEN st
    ELSE LET dep_node_id == Head(deps)
             st1 == IF /\ IsActiveDependency(dep_node_id, change_lookup, applied)
                       /\ dep_node_id # node_id
                    THEN [graph |-> [st.graph EXCEPT ![dep_node_id] = Append(@, node_id)],
                          in_degrees |-> [st.in_degrees EXCEPT ![node_id] = @ + 1]]
                    ELSE st
         IN AddDependenciesSkipsSelf(node_id, Tail(deps), change_lookup, applied, st1)

(* Mutant: a dependency listed again adds no second edge. *)
RECURSIVE AddDependenciesOncePerPair(_, _, _, _, _)
AddDependenciesOncePerPair(node_id, deps, change_lookup, applied, st) ==
    IF deps = <<>> THEN st
    ELSE LET dep_node_id == Head(deps)
             st1 == IF IsActiveDependency(dep_node_id, change_lookup, applied)
                    THEN [graph |-> [st.graph EXCEPT ![dep_node_id] =
                                        IF node_id \in Range(@) THEN @
                                        ELSE Append(@, node_id)],
                          in_degrees |-> [st.in_degrees EXCEPT ![node_id] = @ + 1]]
                    ELSE st
         IN AddDependenciesOncePerPair(node_id, Tail(deps), change_lookup, applied, st1)

(* Inner loop `for dependency in change.depends_on`. *)
RECURSIVE AddDependencies(_, _, _, _, _)
AddDependencies(node_id, deps, change_lookup, applied, st) ==
    IF deps = <<>> THEN st
    ELSE LET dep_node_id == Head(deps)
             st1 == IF IsActiveDependency(dep_node_id, change_lookup, applied)
                    THEN [graph |-> [st.graph EXCEPT ![dep_node_id] = Append(@, node_id)],
                          in_degrees |-> [st.in_degrees EXCEPT ![node_id] = @ + 1]]
                    ELSE st
         IN AddDependencies(node_id, Tail(deps), change_lookup, applied, st1)

(* Outer loop `for change in pending_changes` of lines 272-287. *)
RECURSIVE PopulateGraph(_, _, _, _)
PopulateGraph(pending, change_lookup, applied, st) ==
    IF pending = <<>> THEN st
    ELSE PopulateGraph(Tail(pending), change_lookup, applied,
             AddDependencies(NodeId(Head(pending)), Head(pending).depends_on,
                             change_lookup, applied, st))

(* Lines 260-287: every pending node starts with in-degree 0, then the     *)
(* active edges are added.  graph is a defaultdict(list).                  *)
BuildGraph(pending, change_lookup, applied) ==
    PopulateGraph(pending, change_lookup, applied,
        [graph |-> [n \in AllIdentities |-> <<>>],
         in_degrees |-> [n \in Range(NodeIds(pending)) |-> 0]])

(* Mutant: every pending node is queued at the start. *)
InitialQueueAllPending(pending, degrees) == KeyOrder(NodeIds(pending))

(* Line 291: the nodes of in_degrees with degree 0, in dict order. *)
InitialQueue(pending, degrees) ==
    SelectSeq(KeyOrder(NodeIds(pending)), LAMBDA n : degrees[n] = 0)

(* Mutant: the queue is an unordered collection, any element is taken. *)
DequeueAnyPosition(q) == DOMAIN q

(* Line 296: queue.pop(0) takes the element at this position. *)
DequeuePositions(q) == {1}

(* Mutant: a neighbour that reaches 0 is put at the front of the queue. *)
RECURSIVE RelaxToFront(_, _)
RelaxToFront(neighbors, st) ==
    IF neighbors = <<>> THEN st
    ELSE LET n == Head(neighbors)
             d == st.in_degrees[n] - 1
         IN RelaxToFront(Tail(neighbors),
                  [in_degrees |-> [st.in_degrees EXCEPT ![n] = d],
                   queue |-> IF d = 0 THEN <<n>> \o st.queue ELSE st.queue])

(* Lines 301-306: decrement each neighbour, enqueue it when it reaches 0. *)
RECURSIVE Relax(_, _)
Relax(neighbors, st) ==
    IF neighbors = <<>> THEN st
    ELSE LET n == Head(neighbors)
             d == st.in_degrees[n] - 1
         IN Relax(Tail(neighbors),
                  [in_degrees |-> [st.in_degrees EXCEPT ![n] = d],
                   queue |-> IF d = 0 THEN Append(st.queue, n) ELSE st.queue])

(* Mutant: off by one in the degree test. *)
CyclicNodesOffByOne(degrees) == {n \in DOMAIN degrees : degrees[n] > 1}

(* Line 313: the nodes named by the circular-dependency error. *)
CyclicNodesInPending(degrees) == {n \in DOMAIN degrees : degrees[n] > 0}

(* Lines 330-334: node ids back to ChangeLog objects. *)
FinalSortedChanges(sorted, change_lookup) ==
    LET known == SelectSeq(sorted, LAMBDA n : n \in DOMAIN change_lookup)
    IN [i \in DOMAIN known |-> change_lookup[known[i]]]

-----------------------------------------------------------------------------
(* Inputs: loaded change lists and the history left by earlier runs.       *)

DependsOnLists == UNION {[1..k -> Identities] : k \in 0..MaxDeps}

(* Identities are compared for equality only, so the loaded lists are      *)
(* explored up to renaming: an entry either repeats the identity of an     *)
(* earlier entry (the loader does not reject that) or takes the next       *)
(* identity of IdentityOrder that no earlier entry has.  The depends_on    *)
(* entries and the history rows range over all identities.                 *)
IdentityOrder ==
    <<<<"master.yaml", "a">>, <<"master.yaml", "b">>, <<"sub.yaml", "a">>, <<"sub.yaml", "b">>>>

Rank(n) == CHOOSE k \in DOMAIN IdentityOrder : IdentityOrder[k] = n

NamedInOrder(ids) ==
    \A i \in DOMAIN ids :
        \/ Rank(ids[i]) = 1
        \/ \E j \in 1..(i - 1) : Rank(ids[j]) >= Rank(ids[i]) - 1

(* The loaded lists of n changes with at most `refs` depends_on entries in *)
(* total; the script of the i-th loaded entry is named i.                  *)
LoadedListsOf(n, refs) ==
    {[i \in 1..n |-> ChangeLog(ids[i][1], ids[i][2], deps[i], i, i - 1)] :
        ids \in {f \in [1..n -> Identities] : NamedInOrder(f)},
        deps \in {d \in [1..n -> DependsOnLists] : SumLen(d, n) <= refs}}

LoadedLists(refs) == UNION {LoadedListsOf(n, refs) : n \in 0..MaxChanges}

(* The end-to-end lists: n changes of different identities, each but the   *)
(* first depending on its predecessor (A, then B depends_on A, then C      *)
(* depends_on B).                                                          *)
EndToEndLists ==
    {[i \in 1..n |->
        ChangeLog(IdentityOrder[i][1], IdentityOrder[i][2],
                  IF i = 1 THEN <<>> ELSE <<IdentityOrder[i - 1]>>, i, i - 1)] :
        n \in 1..MaxChanges}

Statuses == {"pending", "success", "failed"}

EarlierRows ==
    {StateRow(n[2], n[1], st, IF st = "failed" THEN "EngineError" ELSE "", 0) :
        n \in Identities, st \in Statuses}

EarlierHistories(rows) == UNION {[1..k -> EarlierRows] : k \in 0..rows}

RECURSIVE SuccessRows(_)
SuccessRows(applied) ==
    IF applied = {} THEN <<>>
    ELSE LET n == CHOOSE x \in applied : TRUE
         IN Append(SuccessRows(applied \ {n}), StateRow(n[2], n[1], "success", "", 0))

-----------------------------------------------------------------------------
(* The definition files and the graph loader (_parse_file_recursively).    *)
(* All files lie in the directory of the master changelog, so a file       *)
(* reference, its absolute path and its path relative to the project root  *)
(* are the same name.  A key that the YAML entry does not have reads as "" *)
(* (entry.get returns None).                                               *)

MasterChangelog == "master.yaml"

(* The scripts on disk.  A file reference is a string; FileName gives its  *)
(* directory and the pieces of its last component between the dots.        *)
SqlFiles == {"a.sql", "001_init.sql", "v1.2.sql", "scripts/b.sql"}

FileName(file_ref) ==
    CASE file_ref = "a.sql" -> [dir |-> "", pieces |-> <<"a", "sql">>]
      [] file_ref = "001_init.sql" -> [dir |-> "", pieces |-> <<"001_init", "sql">>]
      [] file_ref = "v1.2.sql" -> [dir |-> "", pieces |-> <<"v1", "2", "sql">>]
      [] file_ref = "scripts/b.sql" -> [dir |-> "scripts", pieces |-> <<"b", "sql">>]
      [] file_ref = "gone.sql" -> [dir |-> "", pieces |-> <<"gone", "sql">>]
      [] file_ref = "gone.yaml" -> [dir |-> "", pieces |-> <<"gone", "yaml">>]
      [] file_ref = "master.yaml" -> [dir |-> "", pieces |-> <<"master", "yaml">>]
      [] file_ref = "sub.yaml" -> [dir |-> "", pieces |-> <<"sub", "yaml">>]

(* os.path.isfile: the changelog files and the scripts on disk. *)
IsFile(file_ref) == file_ref \in Paths \cup SqlFiles

(* One item of a depends_on list. *)
DepEntry(is_dict, changelog_path, change_id) ==
    [is_dict |-> is_dict, changelog_path |-> changelog_path, change_id |-> change_id]

(* The value of the depends_on key: a list of items, or something else. *)
DependsOnRaw(is_list, items) == [is_list |-> is_list, items |-> items]

NoDependsOn == DependsOnRaw(TRUE, <<>>)

Entry(type, id, file, depends_on) ==
    [type |-> type, id |-> id, file |-> file, depends_on |-> depends_on]

(* Mutant: a dependency without change_id passes. *)
DependsOnInvalidIgnoresId(raw) ==
    \/ ~raw.is_list
    \/ \E k \in DOMAIN raw.items :
          \/ ~raw.items[k].is_dict
          \/ raw.items[k].changelog_path = ""

(* Lines 116-134: the depends_on value fails validation. *)
DependsOnInvalid(raw) ==
    \/ ~raw.is_list
    \/ \E k \in DOMAIN raw.items :
          \/ ~raw.items[k].is_dict
          \/ raw.items[k].changelog_path = ""
          \/ raw.items[k].change_id = ""

(* Line 134: the ChangeLogDependency objects of a valid depends_on value. *)
ParsedDependencies(raw) ==
    [k \in DOMAIN raw.items |-> <<raw.items[k].changelog_path, raw.items[k].change_id>>]

(* os.path.basename(file_ref).split('.')[0]: the piece of the last        *)
(* component before its first dot.                                         *)
Stem(file_ref) == FileName(file_ref).pieces[1]

(* Line 149: f"{stem}_{idx}" for an entry without id. *)
DerivedId(file_ref, index) == Stem(file_ref) \o "_" \o ToString(index)

(* The exception that lines 116-176 raise for the entry, "none" if none. *)
EntryError(e) ==
    IF DependsOnInvalid(e.depends_on) THEN "ValueError"
    ELSE IF e.type \in {"sql", "yaml"}
         THEN IF e.file = "" THEN "ValueError"
              ELSE IF ~IsFile(e.file) THEN "FileNotFoundError"
              ELSE "none"
         ELSE "ValueError"

(* The first item of a depends_on list that fails lines 124-133. *)
FirstInvalidItem(raw) ==
    CHOOSE k \in DOMAIN raw.items :
        /\ ~raw.items[k].is_dict \/ raw.items[k].changelog_path = ""
              \/ raw.items[k].change_id = ""
        /\ \A j \in 1..(k - 1) :
              /\ raw.items[j].is_dict
              /\ raw.items[j].changelog_path # ""
              /\ raw.items[j].change_id # ""

(* The error_msg of the exception that lines 116-176 raise for the entry e *)
(* of the file filepath: its fixed text, the file it names and the other   *)
(* values it interpolates, in order; None reads as "".                     *)
ErrorMsg(text, filepath, args) == [text |-> text, filepath |-> filepath, args |-> args]

(* Mutant: the message of an unknown type names the type only. *)
EntryErrorMsgTypeOnly(e, filepath) == ErrorMsg("Unknown change type", "", <<e.type>>)

EntryErrorMsg(e, filepath) ==
    IF ~e.depends_on.is_list
    THEN ErrorMsg("Invalid 'depends_on' format", filepath, <<e.id>>)
    ELSE IF DependsOnInvalid(e.depends_on)
    THEN LET dep_entry == e.depends_on.items[FirstInvalidItem(e.depends_on)]
         IN IF ~dep_entry.is_dict
            THEN ErrorMsg("Invalid dependency format", filepath, <<e.id>>)
            ELSE ErrorMsg("Missing 'changelog_path' or 'change_id' in dependency",
                          filepath, <<e.id, dep_entry>>)
    ELSE IF e.type = "sql"
    THEN IF e.file = ""
         THEN ErrorMsg("SQL change entry is missing 'file'", filepath, <<e.id>>)
         ELSE ErrorMsg("SQL file not found", filepath, <<e.file, e.id>>)
    ELSE IF e.type = "yaml"
    THEN IF e.file = ""
         THEN ErrorMsg("YAML include entry is missing 'file'", filepath, <<>>)
         ELSE ErrorMsg("Included changelog file not found", filepath, <<e.file>>)
    ELSE ErrorMsg("Unknown change type", filepath, <<e.type, e.id>>)

(* The exception an invalid entry raises. *)
LoadError(e, filepath) ==
    [kind |-> EntryError(e), nodes |-> {}, msg |-> EntryErrorMsg(e, filepath)]

(* Lines 149-152: the ChangeLog object of a valid sql entry at 0-based     *)
(* position `index` of the file current_changelog_rel_path.                *)
EntryChange(e, index, current_changelog_rel_path) ==
    ChangeLog(current_changelog_rel_path,
              IF e.id # "" THEN e.id ELSE DerivedId(e.file, index),
              ParsedDependencies(e.depends_on), e.file, index)

LogRecord(level, what, subject) == [level |-> level, what |-> what, subject |-> subject]

(* One active call of _parse_file_recursively: the file and the 1-based    *)
(* position of the entry that `for idx, entry in enumerate(...)` takes next. *)
Frame(filepath) == [filepath |-> filepath, pos |-> 1]

TopFrame == load_stack[Len(load_stack)]

TopEntry == files[TopFrame.filepath][TopFrame.pos]

HasNextEntry ==
    /\ load_stack # <<>>
    /\ TopFrame.pos <= Len(files[TopFrame.filepath])

(* The top frame moved on to its next entry. *)
Advanced == [load_stack EXCEPT ![Len(load_stack)].pos = @ + 1]

(* Mutant: the visited test never succeeds. *)
AlreadyProcessedNever(filepath, processed) == FALSE

(* Line 100: rel_path_for_processed_files in processed_files. *)
AlreadyProcessed(filepath, processed) == filepath \in processed

(* cli.py line 66: os.path.isfile of the master changelog.  A master file  *)
(* that does not exist is outside the domain of `files`.                   *)
MasterChangelogExists == MasterChangelog \in DOMAIN files

(* cli.py lines 66-68 and 144-146: the master changelog does not exist.    *)
MasterChangelogNotFound(r) ==
    /\ pc[r] = "begin"
    /\ ~MasterChangelogExists
    /\ error' = [error EXCEPT ![r] =
                    [kind |-> "FileNotFoundError", nodes |-> {},
                     msg |-> ErrorMsg("Master changelog file not found",
                                      MasterChangelog, <<>>)]]
    /\ pc' = [pc EXCEPT ![r] = "done"]
    /\ exit_code' = [exit_code EXCEPT ![r] = 1]
    /\ UNCHANGED <<loader_vars, command, id_generator_vars, log, all_defined_changes,
                   history, calls, idx, applied_changes_from_db, pending_changes, graph,
                   in_degrees, queue, sorted_changes_nodes, changes_to_apply>>

(* get_all_changes, lines 186-191, and the entry into the master file,     *)
(* lines 98-107.                                                           *)
GetAllChanges(r) ==
    /\ pc[r] = "begin"
    /\ MasterChangelogExists
    /\ all_parsed_changes' = <<>>
    /\ processed_files' = {MasterChangelog}
    /\ load_stack' = <<Frame(MasterChangelog)>>
    /\ log' = Append(log, LogRecord("debug", "parsing", MasterChangelog))
    /\ pc' = [pc EXCEPT ![r] = "load"]
    /\ UNCHANGED <<files, command, id_generator_vars, all_defined_changes, history, calls, idx, exit_code>>
    /\ UNCHANGED resolver_vars

(* Lines 137-154: a valid sql entry is appended to the accumulated list. *)
ParseSqlEntry(r) ==
    /\ pc[r] = "load"
    /\ HasNextEntry
    /\ EntryError(TopEntry) = "none"
    /\ TopEntry.type = "sql"
    /\ all_parsed_changes' =
          Append(all_parsed_changes,
                 EntryChange(TopEntry, TopFrame.pos - 1, TopFrame.filepath))
    /\ load_stack' = Advanced
    /\ UNCHANGED <<files, processed_files, command, id_generator_vars, log, all_defined_changes, history,
                   calls, pc, idx, exit_code>>
    /\ UNCHANGED resolver_vars

(* Mutant: the included file is parsed after the including file's own      *)
(* entries instead of at the include entry.                                *)
ParseYamlEntryDeferred(r) ==
    /\ pc[r] = "load"
    /\ HasNextEntry
    /\ EntryError(TopEntry) = "none"
    /\ TopEntry.type = "yaml"
    /\ ~AlreadyProcessed(TopEntry.file, processed_files)
    /\ processed_files' = processed_files \cup {TopEntry.file}
    /\ load_stack' = <<Frame(TopEntry.file)>> \o Advanced
    /\ log' = Append(log, LogRecord("debug", "parsing", TopEntry.file))
    /\ UNCHANGED <<files, all_parsed_changes, command, id_generator_vars, all_defined_changes, history,
                   calls, pc, idx, exit_code>>
    /\ UNCHANGED resolver_vars

(* Lines 156-170 and 98-107: a valid yaml entry whose file has not been    *)
(* visited: the loader descends into it.                                   *)
ParseYamlEntry(r) ==
    /\ pc[r] = "load"
    /\ HasNextEntry
    /\ EntryError(TopEntry) = "none"
    /\ TopEntry.type = "yaml"
    /\ ~AlreadyProcessed(TopEntry.file, processed_files)
    /\ processed_files' = processed_files \cup {TopEntry.file}
    /\ load_stack' = Append(Advanced, Frame(TopEntry.file))
    /\ log' = Append(log, LogRecord("debug", "parsing", TopEntry.file))
    /\ UNCHANGED <<files, all_parsed_changes, command, id_generator_vars, all_defined_changes, history,
                   calls, pc, idx, exit_code>>
    /\ UNCHANGED resolver_vars

(* Lines 156-170 and 98-102: a valid yaml entry whose file has already     *)
(* been visited: a warning, and the call returns at once.                  *)
ParseYamlEntryVisited(r) ==
    /\ pc[r] = "load"
    /\ HasNextEntry
    /\ EntryError(TopEntry) = "none"
    /\ TopEntry.type = "yaml"
    /\ AlreadyProcessed(TopEntry.file, processed_files)
    /\ load_stack' = Advanced
    /\ log' = Append(log, LogRecord("warning", "circular include", TopEntry.file))
    /\ UNCHANGED <<files, processed_files, all_parsed_changes, command, id_generator_vars,
                   all_defined_changes, history, calls, pc, idx, exit_code>>
    /\ UNCHANGED resolver_vars

(* Mutant: the failure is swallowed and the list accumulated so far is     *)
(* returned.                                                               *)
ParseEntryFailsReturnsPartial(r) ==
    /\ pc[r] = "load"
    /\ HasNextEntry
    /\ EntryError(TopEntry) # "none"
    /\ error' = [error EXCEPT ![r] = LoadError(TopEntry, TopFrame.filepath)]
    /\ load_stack' = <<>>
    /\ all_defined_changes' = all_parsed_changes
    /\ pc' = [pc EXCEPT ![r] = "start"]
    /\ UNCHANGED <<files, processed_files, all_parsed_changes, command, id_generator_vars, log,
                   history, calls, idx, exit_code, applied_changes_from_db,
                   pending_changes, graph, in_degrees, queue, sorted_changes_nodes,
                   changes_to_apply>>

(* Lines 116-176: the entry raises; the exception leaves every active call *)
(* of the loader, get_unapplied_changes and the try block of the command:  *)
(* exit(1).  The accumulated list is not returned.                         *)
ParseEntryFails(r) ==
    /\ pc[r] = "load"
    /\ HasNextEntry
    /\ EntryError(TopEntry) # "none"
    /\ error' = [error EXCEPT ![r] = LoadError(TopEntry, TopFrame.filepath)]
    /\ load_stack' = <<>>
    /\ pc' = [pc EXCEPT ![r] = "done"]
    /\ exit_code' = [exit_code EXCEPT ![r] = 1]
    /\ UNCHANGED <<files, processed_files, all_parsed_changes, command, id_generator_vars, log,
                   all_defined_changes, history, calls, idx, applied_changes_from_db,
                   pending_changes, graph, in_degrees, queue, sorted_changes_nodes,
                   changes_to_apply>>

(* The loop over the entries of a file is exhausted: the call returns to   *)
(* the including file, or get_all_changes returns the accumulated list     *)
(* (lines 192-193, 238).                                                   *)
ReturnFromFile(r) ==
    /\ pc[r] = "load"
    /\ load_stack # <<>>
    /\ ~HasNextEntry
    /\ load_stack' = SubSeq(load_stack, 1, Len(load_stack) - 1)
    /\ IF Len(load_stack) = 1
       THEN /\ all_defined_changes' = all_parsed_changes
            /\ pc' = [pc EXCEPT ![r] = "start"]
       ELSE UNCHANGED <<all_defined_changes, pc>>
    /\ UNCHANGED <<files, processed_files, all_parsed_changes, command, id_generator_vars, log, history,
                   calls, idx, exit_code>>
    /\ UNCHANGED resolver_vars

Load(r) ==
    \/ GetAllChanges(r)
    \/ ParseSqlEntry(r)
    \/ ParseYamlEntry(r)
    \/ ParseYamlEntryVisited(r)
    \/ ParseEntryFails(r)
    \/ ReturnFromFile(r)

-----------------------------------------------------------------------------
(* get_unapplied_changes, run r.                                           *)

(* Lines 239-291 for the set `applied` that                                *)
(* _get_applied_changes_from_state_manager returned: the pending list, the *)
(* graph and the initial queue; `return []` (and the command's `return`)   *)
(* when nothing is pending.                                                *)
PendingAndGraph(r, applied) ==
    /\ pc[r] = "start"
    /\ LET change_lookup == ChangeLookup(all_defined_changes)
           pending == PendingChanges(all_defined_changes, applied)
           built == BuildGraph(pending, change_lookup, applied)
       IN /\ applied_changes_from_db' = [applied_changes_from_db EXCEPT ![r] = applied]
          /\ pending_changes' = [pending_changes EXCEPT ![r] = pending]
          /\ IF pending = <<>>
             THEN /\ pc' = [pc EXCEPT ![r] = "done"]
                  /\ exit_code' = [exit_code EXCEPT ![r] = 0]
                  /\ UNCHANGED <<graph, in_degrees, queue>>
             ELSE /\ pc' = [pc EXCEPT ![r] = "kahn"]
                  /\ graph' = [graph EXCEPT ![r] = built.graph]
                  /\ in_degrees' = [in_degrees EXCEPT ![r] = built.in_degrees]
                  /\ queue' = [queue EXCEPT ![r] = InitialQueue(pending, built.in_degrees)]
                  /\ UNCHANGED exit_code
    /\ UNCHANGED <<loader_vars, command, id_generator_vars, all_defined_changes, history, calls,
                   sorted_changes_nodes, changes_to_apply, idx, error>>

(* Mutant: the history is queried a second time for the edges. *)
QueryAppliedTwice(r) ==
    /\ PendingAndGraph(r, AppliedFromRows(history))
    /\ log' = log \o <<LogRecord("info", "retrieved applied changes", r),
                        LogRecord("info", "retrieved applied changes", r)>>

(* Lines 238-291 when the history query is answered (lines 210-215). *)
(* Mutant: dry_run does not consult the history. *)
GetAppliedChangesUpdateOnly(r) ==
    IF command[r] = "dry_run" THEN {} ELSE AppliedFromRows(history)

(* _get_applied_changes_from_state_manager as called by either command:    *)
(* the identities of the success rows.                                     *)
GetAppliedChanges(r) == AppliedFromRows(history)

QueryApplied(r) ==
    /\ PendingAndGraph(r, GetAppliedChanges(r))
    /\ log' = Append(log, LogRecord("info", "retrieved applied changes", r))

(* Mutant: the failure of the history query is not caught. *)
QueryAppliedFailsRaises(r) ==
    /\ pc[r] = "start"
    /\ error' = [error EXCEPT ![r] = [kind |-> "HistoryReadError", nodes |-> {}]]
    /\ pc' = [pc EXCEPT ![r] = "done"]
    /\ exit_code' = [exit_code EXCEPT ![r] = 1]
    /\ UNCHANGED <<loader_vars, command, id_generator_vars, log, all_defined_changes, history, calls, idx,
                   applied_changes_from_db, pending_changes, graph, in_degrees, queue,
                   sorted_changes_nodes, changes_to_apply>>

(* Lines 238-291 when the history query raises (lines 216-218): a warning  *)
(* is logged and the empty set is returned.                                *)
QueryAppliedFails(r) ==
    /\ PendingAndGraph(r, {})
    /\ log' = Append(log, LogRecord("warning", "could not query state manager", r))

(* Lines 295-306: one iteration of `while queue`. *)
KahnStep(r) ==
    /\ pc[r] = "kahn"
    /\ queue[r] # <<>>
    /\ \E p \in DequeuePositions(queue[r]) :
         LET current_node == queue[r][p]
             rest == [i \in 1..(Len(queue[r]) - 1) |->
                         IF i < p THEN queue[r][i] ELSE queue[r][i + 1]]
             st == Relax(graph[r][current_node],
                         [in_degrees |-> in_degrees[r], queue |-> rest])
         IN /\ sorted_changes_nodes' =
                  [sorted_changes_nodes EXCEPT ![r] = Append(@, current_node)]
            /\ in_degrees' = [in_degrees EXCEPT ![r] = st.in_degrees]
            /\ queue' = [queue EXCEPT ![r] = st.queue]
    /\ UNCHANGED <<loader_vars, command, id_generator_vars, log, all_defined_changes, history, calls, pc, applied_changes_from_db,
                   pending_changes, graph, changes_to_apply, idx, error, exit_code>>

(* Lines 308-336: the cycle check and the conversion to ChangeLog objects. *)
(* A ValueError leaves update through `except Exception`: exit(1).         *)
KahnDone(r) ==
    /\ pc[r] = "kahn"
    /\ queue[r] = <<>>
    /\ IF Len(sorted_changes_nodes[r]) # Cardinality(DOMAIN in_degrees[r])
       THEN /\ error' = [error EXCEPT ![r] =
                    IF CyclicNodesInPending(in_degrees[r]) # {}
                    THEN [kind |-> "cyclic", nodes |-> CyclicNodesInPending(in_degrees[r])]
                    ELSE [kind |-> "unexpected", nodes |-> {}]]
            /\ pc' = [pc EXCEPT ![r] = "done"]
            /\ exit_code' = [exit_code EXCEPT ![r] = 1]
            /\ UNCHANGED <<changes_to_apply, idx>>
       ELSE /\ changes_to_apply' = [changes_to_apply EXCEPT ![r] =
                    FinalSortedChanges(sorted_changes_nodes[r],
                                       ChangeLookup(all_defined_changes))]
            /\ idx' = [idx EXCEPT ![r] = 1]
            /\ pc' = [pc EXCEPT ![r] = IF command[r] = "dry_run" THEN "report" ELSE "apply"]
            /\ UNCHANGED <<error, exit_code>>
    /\ UNCHANGED <<loader_vars, command, id_generator_vars, log, all_defined_changes, history, calls, applied_changes_from_db,
                   pending_changes, graph, in_degrees, queue, sorted_changes_nodes>>

Resolve(r) == QueryApplied(r) \/ KahnStep(r) \/ KahnDone(r)

(* get_unapplied_changes has returned or raised. *)
Resolved(r) == pc[r] \notin {"idle", "begin", "load", "start", "kahn"}

-----------------------------------------------------------------------------
(* Resolution alone: two successive calls on the same files and history.   *)

InitRun ==
    /\ load_stack = <<>>
    /\ processed_files = {}
    /\ all_parsed_changes = <<>>
    /\ log = <<>>
    /\ calls = <<>>
    /\ applied_changes_from_db = [r \in Runs |-> {}]
    /\ pending_changes = [r \in Runs |-> <<>>]
    /\ graph = [r \in Runs |-> [n \in AllIdentities |-> <<>>]]
    /\ in_degrees = [r \in Runs |-> <<>>]
    /\ queue = [r \in Runs |-> <<>>]
    /\ sorted_changes_nodes = [r \in Runs |-> <<>>]
    /\ changes_to_apply = [r \in Runs |-> <<>>]
    /\ idx = [r \in Runs |-> 0]
    /\ error = [r \in Runs |-> NoError]
    /\ exit_code = [r \in Runs |-> 0]
    /\ now_ms = 0
    /\ last_timestamp_ms = -1
    /\ counter = 0
    /\ unique_id = -1
    /\ lock_owner = 0
    /\ thread_pc = [t \in Threads |-> "idle"]
    /\ thread_ts = [t \in Threads |-> 0]
    /\ issued = <<>>

(* The specifications that start after get_all_changes() has returned do  *)
(* not read the definition files again.                                    *)
NoFiles == [p \in Paths |-> <<>>]

InitResolve ==
    /\ files = NoFiles
    /\ command = [r \in Runs |-> "update"]
    /\ all_defined_changes \in LoadedLists(MaxRefs)
    /\ history \in {SuccessRows(applied) : applied \in SUBSET Identities}
    /\ pc = [r \in Runs |-> "start"]
    /\ InitRun

NextResolve ==
    \/ Resolve(1)
    \/ Resolved(1) /\ Resolve(2)

SpecResolve == InitResolve /\ [][NextResolve]_vars

-----------------------------------------------------------------------------
(* The `for change in changes_to_apply` loop of update, run r.             *)

CurrentChange(r) == changes_to_apply[r][idx[r]]

Call(op, r, change, ok) == [op |-> op, run |-> r, node |-> NodeId(change), ok |-> ok]

(* Line 126: manager.log_start(change, change.changelog_file).  The loader *)
(* only builds changes of type "sql", so the skip of line 118 never runs.  *)
LogStart(r) ==
    /\ pc[r] = "apply"
    /\ idx[r] <= Len(changes_to_apply[r])
    /\ CurrentChange(r).type = "sql"
    /\ history' = LogStartRows(history, CurrentChange(r),
                               CurrentChange(r).changelog_file, r)
    /\ pc' = [pc EXCEPT ![r] = "render"]
    /\ UNCHANGED <<loader_vars, command, id_generator_vars, log, all_defined_changes, calls, idx, exit_code>>
    /\ UNCHANGED resolver_vars

(* Line 128: render_sql returns the text. *)
RenderSql(r) ==
    /\ pc[r] = "render"
    /\ calls' = Append(calls, Call("render_sql", r, CurrentChange(r), TRUE))
    /\ pc' = [pc EXCEPT ![r] = "execute"]
    /\ UNCHANGED <<loader_vars, command, id_generator_vars, log, all_defined_changes, history, idx, exit_code>>
    /\ UNCHANGED resolver_vars

(* Line 128: render_sql raises; control goes to line 136. *)
RenderSqlFails(r) ==
    /\ pc[r] = "render"
    /\ calls' = Append(calls, Call("render_sql", r, CurrentChange(r), FALSE))
    /\ error' = [error EXCEPT ![r] = [kind |-> "TemplateError", nodes |-> {}]]
    /\ pc' = [pc EXCEPT ![r] = "except"]
    /\ UNCHANGED <<loader_vars, command, id_generator_vars, log, all_defined_changes, history, idx, exit_code, applied_changes_from_db,
                   pending_changes, graph, in_degrees, queue, sorted_changes_nodes,
                   changes_to_apply>>

(* Line 131: executor.execute_change(sql) returns. *)
ExecuteChange(r) ==
    /\ pc[r] = "execute"
    /\ calls' = Append(calls, Call("execute_change", r, CurrentChange(r), TRUE))
    /\ pc' = [pc EXCEPT ![r] = "executed"]
    /\ UNCHANGED <<loader_vars, command, id_generator_vars, log, all_defined_changes, history, idx, exit_code>>
    /\ UNCHANGED resolver_vars

(* Line 131: executor.execute_change(sql) raises; control goes to line 136. *)
ExecuteChangeFails(r) ==
    /\ pc[r] = "execute"
    /\ calls' = Append(calls, Call("execute_change", r, CurrentChange(r), FALSE))
    /\ error' = [error EXCEPT ![r] = [kind |-> "EngineError", nodes |-> {}]]
    /\ pc' = [pc EXCEPT ![r] = "except"]
    /\ UNCHANGED <<loader_vars, command, id_generator_vars, log, all_defined_changes, history, idx, exit_code, applied_changes_from_db,
                   pending_changes, graph, in_degrees, queue, sorted_changes_nodes,
                   changes_to_apply>>

(* Lines 133-135: update_status(..., "success"), then the next change. *)
UpdateStatusSuccess(r) ==
    /\ pc[r] = "executed"
    /\ history' = UpdateStatusRows(history, CurrentChange(r).id,
                                   CurrentChange(r).changelog_file, "success", "")
    /\ idx' = [idx EXCEPT ![r] = @ + 1]
    /\ pc' = [pc EXCEPT ![r] = "apply"]
    /\ UNCHANGED <<loader_vars, command, id_generator_vars, log, all_defined_changes, calls, exit_code>>
    /\ UNCHANGED resolver_vars

(* Mutant: the failure is recorded and the same change is tried again. *)
UpdateStatusFailedRetries(r) ==
    /\ pc[r] = "except"
    /\ history' = UpdateStatusRows(history, CurrentChange(r).id,
                                   CurrentChange(r).changelog_file, "failed",
                                   error[r].kind)
    /\ pc' = [pc EXCEPT ![r] = "apply"]
    /\ UNCHANGED <<loader_vars, command, id_generator_vars, log, all_defined_changes,
                   calls, idx, exit_code>>
    /\ UNCHANGED resolver_vars

(* Mutant: the failure is recorded and the command returns normally. *)
UpdateStatusFailedReturns(r) ==
    /\ pc[r] = "except"
    /\ history' = UpdateStatusRows(history, CurrentChange(r).id,
                                   CurrentChange(r).changelog_file, "failed",
                                   error[r].kind)
    /\ pc' = [pc EXCEPT ![r] = "done"]
    /\ exit_code' = [exit_code EXCEPT ![r] = 0]
    /\ UNCHANGED <<loader_vars, command, id_generator_vars, log, all_defined_changes,
                   calls, idx>>
    /\ UNCHANGED resolver_vars

(* Lines 136-140: update_status(..., "failed", str(e)) and exit(1). *)
UpdateStatusFailed(r) ==
    /\ pc[r] = "except"
    /\ history' = UpdateStatusRows(history, CurrentChange(r).id,
                                   CurrentChange(r).changelog_file, "failed",
                                   error[r].kind)
    /\ pc' = [pc EXCEPT ![r] = "done"]
    /\ exit_code' = [exit_code EXCEPT ![r] = 1]
    /\ UNCHANGED <<loader_vars, command, id_generator_vars, log, all_defined_changes, calls, idx>>
    /\ UNCHANGED resolver_vars

(* Line 142: the loop is exhausted, update returns. *)
UpdateComplete(r) ==
    /\ pc[r] = "apply"
    /\ idx[r] > Len(changes_to_apply[r])
    /\ pc' = [pc EXCEPT ![r] = "done"]
    /\ exit_code' = [exit_code EXCEPT ![r] = 0]
    /\ UNCHANGED <<loader_vars, command, id_generator_vars, log, all_defined_changes, history, calls, idx>>
    /\ UNCHANGED resolver_vars

(* The History Store refuses a write: client.execute raises inside         *)
(* log_start or update_status, the method logs and re-raises, no row is    *)
(* written.                                                                *)
StoreError(op, change) ==
    [kind |-> "StoreError", nodes |-> {}, op |-> op, node |-> NodeId(change)]

(* Mutant: the failure of log_start is swallowed and the change goes on. *)
LogStartFailsIgnored(r) ==
    /\ pc[r] = "apply"
    /\ idx[r] <= Len(changes_to_apply[r])
    /\ CurrentChange(r).type = "sql"
    /\ error' = [error EXCEPT ![r] = StoreError("log_start", CurrentChange(r))]
    /\ pc' = [pc EXCEPT ![r] = "render"]
    /\ UNCHANGED <<loader_vars, command, id_generator_vars, log, all_defined_changes,
                   history, calls, idx, exit_code, applied_changes_from_db,
                   pending_changes, graph, in_degrees, queue, sorted_changes_nodes,
                   changes_to_apply>>

(* Line 126 with changelog_state_manager.py lines 98-100: log_start        *)
(* raises; control goes to line 136.                                       *)
LogStartFails(r) ==
    /\ pc[r] = "apply"
    /\ idx[r] <= Len(changes_to_apply[r])
    /\ CurrentChange(r).type = "sql"
    /\ error' = [error EXCEPT ![r] = StoreError("log_start", CurrentChange(r))]
    /\ pc' = [pc EXCEPT ![r] = "except"]
    /\ UNCHANGED <<loader_vars, command, id_generator_vars, log, all_defined_changes,
                   history, calls, idx, exit_code, applied_changes_from_db,
                   pending_changes, graph, in_degrees, queue, sorted_changes_nodes,
                   changes_to_apply>>

(* Line 133 with changelog_state_manager.py lines 133-135:                 *)
(* update_status(..., "success") raises after execute_change returned;     *)
(* the call is inside the try of line 122, control goes to line 136.       *)
UpdateStatusSuccessFails(r) ==
    /\ pc[r] = "executed"
    /\ error' = [error EXCEPT ![r] = StoreError("update_status", CurrentChange(r))]
    /\ pc' = [pc EXCEPT ![r] = "except"]
    /\ UNCHANGED <<loader_vars, command, id_generator_vars, log, all_defined_changes,
                   history, calls, idx, exit_code, applied_changes_from_db,
                   pending_changes, graph, in_degrees, queue, sorted_changes_nodes,
                   changes_to_apply>>

(* Line 137: update_status(..., "failed") raises inside the handler; the   *)
(* exception, whose context is the one being handled, reaches the outer    *)
(* handler, lines 144-146: exit(1).                                        *)
UpdateStatusFailedFails(r) ==
    /\ pc[r] = "except"
    /\ error' = [error EXCEPT ![r] =
                    [kind |-> "StoreError", nodes |-> {}, op |-> "update_status",
                     node |-> NodeId(CurrentChange(r)), context |-> error[r]]]
    /\ pc' = [pc EXCEPT ![r] = "done"]
    /\ exit_code' = [exit_code EXCEPT ![r] = 1]
    /\ UNCHANGED <<loader_vars, command, id_generator_vars, log, all_defined_changes,
                   history, calls, idx, applied_changes_from_db,
                   pending_changes, graph, in_degrees, queue, sorted_changes_nodes,
                   changes_to_apply>>

StoreFault(r) ==
    \/ LogStartFails(r)
    \/ UpdateStatusSuccessFails(r)
    \/ UpdateStatusFailedFails(r)

Apply(r) ==
    \/ LogStart(r)
    \/ RenderSql(r)
    \/ RenderSqlFails(r)
    \/ ExecuteChange(r)
    \/ ExecuteChangeFails(r)
    \/ UpdateStatusSuccess(r)
    \/ UpdateStatusFailed(r)
    \/ UpdateComplete(r)

-----------------------------------------------------------------------------
(* The `for change in unapplied_changes` loop of dry_run, run r.           *)

(* Mutant: the preview sends the text to the engine. *)
DryRunSqlExecutes(r, change) == Call("execute_change", r, change, TRUE)

(* ClickHouseExecutor.dry_run: the text is logged, nothing is sent. *)
DryRunSql(r, change) == Call("dry_run", r, change, TRUE)

(* cli.py line 234: render_sql returns the text. *)
DryRunRender(r) ==
    /\ pc[r] = "report"
    /\ idx[r] <= Len(changes_to_apply[r])
    /\ CurrentChange(r).type = "sql"
    /\ calls' = Append(calls, Call("render_sql", r, CurrentChange(r), TRUE))
    /\ pc' = [pc EXCEPT ![r] = "preview"]
    /\ UNCHANGED <<loader_vars, command, id_generator_vars, log, all_defined_changes, history, idx, exit_code>>
    /\ UNCHANGED resolver_vars

(* cli.py line 234: render_sql raises; lines 241-243: exit(1). *)
DryRunRenderFails(r) ==
    /\ pc[r] = "report"
    /\ idx[r] <= Len(changes_to_apply[r])
    /\ CurrentChange(r).type = "sql"
    /\ calls' = Append(calls, Call("render_sql", r, CurrentChange(r), FALSE))
    /\ error' = [error EXCEPT ![r] = [kind |-> "TemplateError", nodes |-> {}]]
    /\ pc' = [pc EXCEPT ![r] = "done"]
    /\ exit_code' = [exit_code EXCEPT ![r] = 1]
    /\ UNCHANGED <<loader_vars, command, id_generator_vars, log, all_defined_changes, history, idx,
                   applied_changes_from_db, pending_changes, graph, in_degrees, queue,
                   sorted_changes_nodes, changes_to_apply>>

(* cli.py lines 235-239: executor.dry_run(sql), then the next change. *)
DryRunPreview(r) ==
    /\ pc[r] = "preview"
    /\ calls' = Append(calls, DryRunSql(r, CurrentChange(r)))
    /\ idx' = [idx EXCEPT ![r] = @ + 1]
    /\ pc' = [pc EXCEPT ![r] = "report"]
    /\ UNCHANGED <<loader_vars, command, id_generator_vars, log, all_defined_changes, history, exit_code>>
    /\ UNCHANGED resolver_vars

(* The loop is exhausted, dry_run returns. *)
DryRunComplete(r) ==
    /\ pc[r] = "report"
    /\ idx[r] > Len(changes_to_apply[r])
    /\ pc' = [pc EXCEPT ![r] = "done"]
    /\ exit_code' = [exit_code EXCEPT ![r] = 0]
    /\ UNCHANGED <<loader_vars, command, id_generator_vars, log, all_defined_changes, history, calls, idx>>
    /\ UNCHANGED resolver_vars

DryRun(r) ==
    \/ DryRunRender(r)
    \/ DryRunRenderFails(r)
    \/ DryRunPreview(r)
    \/ DryRunComplete(r)

-----------------------------------------------------------------------------
(* One update run against a history left by earlier runs.                  *)

Init ==
    /\ files = NoFiles
    /\ command = [r \in Runs |-> "update"]
    /\ all_defined_changes \in LoadedLists(MaxUpdateRefs) \cup EndToEndLists
    /\ history \in EarlierHistories(MaxRows)
    /\ pc = [r \in Runs |-> IF r = 1 THEN "start" ELSE "idle"]
    /\ InitRun

Next == Resolve(1) \/ Apply(1)

Spec == Init /\ [][Next]_vars

-----------------------------------------------------------------------------
(* Two successive invocations on the same definition files, each an update *)
(* or a dry-run, the second starting when the first is over; the history   *)
(* is empty before the first, and the history query of either may fail.    *)

Run(r) ==
    \/ Resolve(r)
    \/ QueryAppliedFails(r)
    \/ Apply(r)
    \/ DryRun(r)

InitRuns ==
    /\ files = NoFiles
    /\ command \in [Runs -> {"update", "dry_run"}]
    /\ all_defined_changes \in LoadedLists(MaxUpdateRefs) \cup EndToEndLists
    /\ history = <<>>
    /\ pc = [r \in Runs |-> "start"]
    /\ InitRun

NextRuns ==
    \/ Run(1)
    \/ pc[1] = "done" /\ Run(2)

SpecRuns == InitRuns /\ [][NextRuns]_vars

(* Two update invocations at the same time on the same definition files,   *)
(* History Store and engine: the steps of the two processes interleave     *)
(* freely, nothing in cli.py or changelog_state_manager.py takes a lock.   *)
Update(r) == Resolve(r) \/ Apply(r)

InitConcurrent ==
    /\ files = NoFiles
    /\ command = [r \in Runs |-> "update"]
    /\ all_defined_changes \in
          UNION {LoadedListsOf(n, MaxUpdateRefs) : n \in 0..MaxConcurrentChanges}
    /\ history = <<>>
    /\ pc = [r \in Runs |-> "start"]
    /\ InitRun

NextConcurrent == Update(1) \/ Update(2)

SpecConcurrent == InitConcurrent /\ [][NextConcurrent]_vars

(* Two update runs in succession against a History Store whose writes can  *)
(* fail.                                                                   *)
UpdateWithFaults(r) == Resolve(r) \/ Apply(r) \/ StoreFault(r)

InitStore ==
    /\ files = NoFiles
    /\ command = [r \in Runs |-> "update"]
    /\ all_defined_changes \in LoadedLists(MaxUpdateRefs)
    /\ history = <<>>
    /\ pc = [r \in Runs |-> "start"]
    /\ InitRun

NextStore ==
    \/ UpdateWithFaults(1)
    \/ pc[1] = "done" /\ UpdateWithFaults(2)

SpecStore == InitStore /\ [][NextStore]_vars

(* The process of run r is terminated from outside (SIGKILL, power loss):  *)
(* no handler and no finally block runs, the rows written so far stay.     *)
Crash(r) ==
    /\ pc[r] \notin {"idle", "done", "killed"}
    /\ pc' = [pc EXCEPT ![r] = "killed"]
    /\ exit_code' = [exit_code EXCEPT ![r] = 137]
    /\ UNCHANGED <<loader_vars, command, id_generator_vars, log, all_defined_changes,
                   history, calls, idx>>
    /\ UNCHANGED resolver_vars

(* Two invocations one after the other, each of which may be terminated.   *)
NextCrash ==
    \/ Run(1)
    \/ Crash(1)
    \/ pc[1] \in {"done", "killed"} /\ (Run(2) \/ Crash(2))

SpecCrash == InitRuns /\ [][NextCrash]_vars

-----------------------------------------------------------------------------
(* util/id_generator.py.  The clock counts milliseconds from the start of  *)
(* the process instead of from the epoch; calls are serialised by _lock,   *)
(* so one call is one step.                                                *)

(* Line 42: the space of ids that one millisecond gets. *)
IdsPerMillisecond == 1000

(* Lines 35-39: the counter of the call at current_timestamp_ms. *)
NextCounter(current_timestamp_ms) ==
    IF current_timestamp_ms = last_timestamp_ms THEN counter + 1 ELSE 0

(* Line 43. *)
UniqueId(current_timestamp_ms, count) == current_timestamp_ms * IdsPerMillisecond + count

(* generate_unique_id_int, lines 30-44. *)
GenerateUniqueIdInt ==
    /\ NextCounter(now_ms) < MaxCallsPerTick
    /\ last_timestamp_ms' = now_ms
    /\ counter' = NextCounter(now_ms)
    /\ unique_id' = UniqueId(now_ms, NextCounter(now_ms))
    /\ UNCHANGED <<now_ms, thread_vars, loader_vars, command, log, all_defined_changes,
                   history, calls, pc, idx, exit_code>>
    /\ UNCHANGED resolver_vars

(* The clock passes to the next millisecond. *)
Tick ==
    /\ now_ms < MaxTicks
    /\ now_ms' = now_ms + 1
    /\ UNCHANGED <<last_timestamp_ms, counter, unique_id, thread_vars, loader_vars,
                   command, log, all_defined_changes, history, calls, pc, idx, exit_code>>
    /\ UNCHANGED resolver_vars

(* The same function called from several threads, statement by statement.  *)
not_id_generator_vars ==
    <<loader_vars, command, log, all_defined_changes, history, calls, pc, idx,
      exit_code, resolver_vars>>

(* Mutant: `with _lock` does not wait. *)
LockFreeAlways(owner) == TRUE

(* threading.Lock: free when no thread holds it. *)
LockFree(owner) == owner = 0

(* Line 29: `with _lock:` is entered. *)
AcquireLock(t) ==
    /\ thread_pc[t] = "idle"
    /\ Len(issued) < MaxThreadCalls
    /\ LockFree(lock_owner)
    /\ lock_owner' = t
    /\ issued' = Append(issued, [thread |-> t, id |-> -1])
    /\ thread_pc' = [thread_pc EXCEPT ![t] = "now"]
    /\ UNCHANGED <<now_ms, last_timestamp_ms, counter, unique_id, thread_ts>>
    /\ UNCHANGED not_id_generator_vars

(* Line 30: current_timestamp_ms = int(datetime.now(...).timestamp() * 1000). *)
ReadClock(t) ==
    /\ thread_pc[t] = "now"
    /\ thread_ts' = [thread_ts EXCEPT ![t] = now_ms]
    /\ thread_pc' = [thread_pc EXCEPT ![t] = "compare"]
    /\ UNCHANGED <<now_ms, last_timestamp_ms, counter, unique_id, lock_owner, issued>>
    /\ UNCHANGED not_id_generator_vars

(* Lines 34-38: the comparison with _last_timestamp_ms and the update of    *)
(* the globals.                                                            *)
CompareAndUpdate(t) ==
    /\ thread_pc[t] = "compare"
    /\ IF thread_ts[t] = last_timestamp_ms
       THEN counter' = counter + 1 /\ UNCHANGED last_timestamp_ms
       ELSE last_timestamp_ms' = thread_ts[t] /\ counter' = 0
    /\ thread_pc' = [thread_pc EXCEPT ![t] = "combine"]
    /\ UNCHANGED <<now_ms, unique_id, lock_owner, thread_ts, issued>>
    /\ UNCHANGED not_id_generator_vars

(* The call of thread t that has not returned. *)
OpenCall(t) == CHOOSE k \in DOMAIN issued : issued[k] = [thread |-> t, id |-> -1]

(* Lines 43-44: the id is combined from the local timestamp and the global *)
(* counter and returned; the lock is released.                             *)
ReturnUniqueId(t) ==
    /\ thread_pc[t] = "combine"
    /\ unique_id' = UniqueId(thread_ts[t], counter)
    /\ issued' = [issued EXCEPT ![OpenCall(t)].id = UniqueId(thread_ts[t], counter)]
    /\ lock_owner' = 0
    /\ thread_pc' = [thread_pc EXCEPT ![t] = "idle"]
    /\ UNCHANGED <<now_ms, last_timestamp_ms, counter, thread_ts>>
    /\ UNCHANGED not_id_generator_vars

GenerateInThread(t) ==
    AcquireLock(t) \/ ReadClock(t) \/ CompareAndUpdate(t) \/ ReturnUniqueId(t)


InitIdGenerator ==
    /\ files = NoFiles
    /\ command = [r \in Runs |-> "update"]
    /\ all_defined_changes = <<>>
    /\ history = <<>>
    /\ pc = [r \in Runs |-> "idle"]
    /\ InitRun

NextIdGenerator == GenerateUniqueIdInt \/ Tick

SpecIdGenerator == InitIdGenerator /\ [][NextIdGenerator]_vars

NextIdThreads == Tick \/ \E t \in Threads : GenerateInThread(t)

SpecIdThreads == InitIdGenerator /\ [][NextIdThreads]_vars

-----------------------------------------------------------------------------
(* The definition files explored by the specifications that load them.     *)

(* Valid sql entries: with an explicit id or with a derived one. *)
SqlEntries(depends_on_values) ==
    {Entry("sql", id, "a.sql", d) : id \in {"", "a_1"}, d \in depends_on_values}

(* Valid yaml entries: includes of the changelog files, the including file *)
(* itself among them.                                                      *)
YamlEntries == {Entry("yaml", "", f, NoDependsOn) : f \in Paths}

(* Entries that fail validation: an unknown type, no type, an include of a *)
(* file that does not exist, a script that does not exist, and entries of  *)
(* each kind whose depends_on is invalid: a dependency without change_id,  *)
(* one without changelog_path, an item that is no dictionary, a value that *)
(* is no list.                                                             *)
FaultyEntries ==
    {Entry("table", "", "a.sql", NoDependsOn),
     Entry("", "a_1", "a.sql", NoDependsOn),
     Entry("yaml", "", "gone.yaml", NoDependsOn),
     Entry("sql", "", "gone.sql", NoDependsOn),
     Entry("sql", "a_1", "a.sql",
           DependsOnRaw(TRUE, <<DepEntry(TRUE, "master.yaml", "")>>)),
     Entry("yaml", "", "sub.yaml",
           DependsOnRaw(TRUE, <<DepEntry(TRUE, "", "a_0")>>)),
     Entry("table", "", "a.sql",
           DependsOnRaw(TRUE, <<DepEntry(FALSE, "", "")>>)),
     Entry("sql", "", "a.sql", DependsOnRaw(FALSE, <<>>))}

DepTargets == {<<"master.yaml", "a_0">>, <<"master.yaml", "a_1">>, <<"sub.yaml", "a_0">>}

(* depends_on values with at most one item, every item valid. *)
DependsOnValues ==
    {NoDependsOn} \cup {DependsOnRaw(TRUE, <<DepEntry(TRUE, t[1], t[2])>>) : t \in DepTargets}

EntryLists(entries, n) == UNION {[1..k -> entries] : k \in 0..n}

FaultCount(list) == Cardinality({i \in DOMAIN list : EntryError(list[i]) # "none"})

RECURSIVE RefCount(_)
RefCount(list) ==
    IF list = <<>> THEN 0
    ELSE Len(Head(list).depends_on.items) + RefCount(Tail(list))

(* The file systems whose master file has at most m entries and whose      *)
(* included file has at most n, with at most MaxFaults faulty entries and  *)
(* at most `refs` depends_on items in all.                                 *)
FileSystems(entries, m, n, refs) ==
    {[p \in Paths |-> IF p = MasterChangelog THEN mf ELSE sf] :
        <<mf, sf>> \in {x \in EntryLists(entries, m) \X EntryLists(entries, n) :
                           /\ FaultCount(x[1]) + FaultCount(x[2]) <= MaxFaults
                           /\ RefCount(x[1]) + RefCount(x[2]) <= refs}}

-----------------------------------------------------------------------------
(* get_all_changes alone, on the explored definition files.                *)

InitLoad ==
    /\ files \in FileSystems(SqlEntries({NoDependsOn}) \cup YamlEntries \cup FaultyEntries,
                             MaxMasterEntries, MaxSubEntries, MaxFaults)
    /\ command = [r \in Runs |-> "update"]
    /\ all_defined_changes = <<>>
    /\ history = <<>>
    /\ pc = [r \in Runs |-> IF r = 1 THEN "begin" ELSE "idle"]
    /\ InitRun

NextLoad == Load(1)

SpecLoad == InitLoad /\ [][NextLoad]_vars

(* get_all_changes on definition files whose sql entries name each of the  *)
(* scripts, with and without an explicit id.                               *)
ScriptEntries == {Entry("sql", id, f, NoDependsOn) : id \in {"", "a_1"}, f \in SqlFiles}

InitDerive ==
    /\ files \in FileSystems(ScriptEntries \cup YamlEntries
                                \cup {Entry("sql", "", "gone.sql", NoDependsOn)},
                             MaxDeriveEntries, 1, 0)
    /\ command = [r \in Runs |-> "update"]
    /\ all_defined_changes = <<>>
    /\ history = <<>>
    /\ pc = [r \in Runs |-> IF r = 1 THEN "begin" ELSE "idle"]
    /\ InitRun

SpecDerive == InitDerive /\ [][NextLoad]_vars

(* The loader is one sequential call: while a step of it is possible, it   *)
(* is taken.                                                               *)
SpecLoadFair == SpecLoad /\ WF_vars(NextLoad)

-----------------------------------------------------------------------------
(* One update run from the definition files, on an empty history.          *)

NoMasterChangelog == [p \in Paths \ {MasterChangelog} |-> <<>>]

InitUpdate ==
    /\ files \in FileSystems(SqlEntries(DependsOnValues) \cup YamlEntries \cup FaultyEntries,
                             MaxUpdateEntries, MaxUpdateEntries, MaxFileRefs)
                  \cup {NoMasterChangelog}
    /\ command = [r \in Runs |-> "update"]
    /\ all_defined_changes = <<>>
    /\ history = <<>>
    /\ pc = [r \in Runs |-> IF r = 1 THEN "begin" ELSE "idle"]
    /\ InitRun

NextUpdate == MasterChangelogNotFound(1) \/ Load(1) \/ Resolve(1) \/ Apply(1)

SpecUpdate == InitUpdate /\ [][NextUpdate]_vars

(* dry_run and then update, each from its first line, on the same files    *)
(* and the history the earlier runs left.                                  *)
GetUnappliedChanges(r) ==
    \/ MasterChangelogNotFound(r)
    \/ Load(r)
    \/ Resolve(r)

(* Rows of earlier runs for the identities the definition files declare. *)
PreviewRows ==
    {StateRow(n[2], n[1], st, IF st = "failed" THEN "EngineError" ELSE "", 0) :
        n \in {<<MasterChangelog, "a_0">>, <<MasterChangelog, "a_1">>}, st \in Statuses}

InitPreview ==
    /\ files \in FileSystems(SqlEntries(DependsOnValues) \cup YamlEntries \cup FaultyEntries,
                             MaxPreviewEntries, MaxPreviewSubEntries, MaxPreviewRefs)
                  \cup {NoMasterChangelog}
    /\ command = [r \in Runs |-> IF r = 1 THEN "dry_run" ELSE "update"]
    /\ all_defined_changes = <<>>
    /\ history \in UNION {[1..k -> PreviewRows] : k \in 0..MaxPreviewRows}
    /\ pc = [r \in Runs |-> "begin"]
    /\ InitRun

NextPreview ==
    \/ GetUnappliedChanges(1)
    \/ DryRun(1)
    \/ pc[1] = "done" /\ (GetUnappliedChanges(2) \/ Apply(2))

SpecPreview == InitPreview /\ [][NextPreview]_vars

-----------------------------------------------------------------------------
(* Vocabulary of the properties, defined on the inputs (the loaded list    *)
(* and the history rows), not on the resolver's own graph.                 *)

(* The identity has at least one history row of status success. *)
HasSuccessRow(n) ==
    \E i \in DOMAIN history :
        /\ history[i].changelog_path = n[1]
        /\ history[i].change_id = n[2]
        /\ history[i].status = "success"

IsLoaded(n) == \E i \in DOMAIN all_defined_changes : NodeId(all_defined_changes[i]) = n

IsPending(n) == IsLoaded(n) /\ ~HasSuccessRow(n)

SuccessIdentities == {n \in Identities : HasSuccessRow(n)}

PendingIdentities == {n \in Identities : IsPending(n)}

(* Some loaded entry of identity c declares d in depends_on. *)
Declares(c, d) ==
    \E i \in DOMAIN all_defined_changes :
        /\ NodeId(all_defined_changes[i]) = c
        /\ \E k \in DOMAIN all_defined_changes[i].depends_on :
              all_defined_changes[i].depends_on[k] = d

(* Active edge d -> c: c pending, c declares d, d loaded and not applied. *)
ActiveEdge(d, c) ==
    /\ Declares(c, d)
    /\ IsPending(c)
    /\ IsLoaded(d)
    /\ ~HasSuccessRow(d)

ActiveEdges == {e \in Identities \X Identities : ActiveEdge(e[1], e[2])}

(* b is reached from a along at most k active edges (at least one). *)
RECURSIVE Reaches(_, _, _)
Reaches(a, b, k) ==
    /\ k > 0
    /\ \E m \in Identities : ActiveEdge(a, m) /\ (m = b \/ Reaches(m, b, k - 1))

(* The identity lies on a cycle of active edges. *)
OnActiveCycle(n) == Reaches(n, n, Cardinality(Identities))

ActiveCycleExists == \E n \in Identities : OnActiveCycle(n)

ResolutionFailed(r) == error[r].kind \in {"cyclic", "unexpected"}

(* get_unapplied_changes of run r has returned a sequence. *)
Returned(r) == Resolved(r) /\ ~ResolutionFailed(r)

ResolvedSequence(r) == NodeIds(changes_to_apply[r])

-----------------------------------------------------------------------------
(* C1: whenever get_unapplied_changes returns a sequence, every active     *)
(* dependency edge D -> C has D at an earlier position than C in it.       *)
C1_ActiveEdgesOrdered ==
    \A r \in Runs :
        Returned(r) =>
            \A e \in ActiveEdges : Before(ResolvedSequence(r), e[1], e[2])

(* A returned sequence in which an active edge forced a change in front of *)
(* one that precedes it in loader order.                                   *)
C1_Witness ==
    /\ Returned(1)
    /\ \E e \in ActiveEdges :
          /\ Before(NodeIds(all_defined_changes), e[2], e[1])
          /\ Before(ResolvedSequence(1), e[1], e[2])

(* C2: a returned sequence contains every pending identity exactly once    *)
(* and no identity that is not pending, and each of its elements is one of *)
(* the pending ChangeLog objects; when the pending list repeats no         *)
(* identity, the sequence is that list reordered.                          *)
C2_PermutationOfPending ==
    \A r \in Runs :
        Returned(r) =>
            /\ NoDuplicates(ResolvedSequence(r))
            /\ Range(ResolvedSequence(r)) = PendingIdentities
            /\ Range(changes_to_apply[r]) \subseteq Range(pending_changes[r])
            /\ NoDuplicates(NodeIds(pending_changes[r])) =>
                  /\ Len(changes_to_apply[r]) = Len(pending_changes[r])
                  /\ Range(changes_to_apply[r]) = Range(pending_changes[r])

(* Two of three loaded changes are pending and are returned in the order   *)
(* opposite to loader order; the applied one is left out.                  *)
C2_Witness ==
    /\ Returned(1)
    /\ Len(all_defined_changes) = 3
    /\ \E i \in DOMAIN all_defined_changes : HasSuccessRow(NodeId(all_defined_changes[i]))
    /\ Len(changes_to_apply[1]) = 2
    /\ changes_to_apply[1] # pending_changes[1]

(* C3: if the active edges contain a cycle, resolution returns no sequence *)
(* and fails with the circular-dependency error, which names every         *)
(* identity on a cycle.                                                    *)
C3_CycleReported ==
    \A r \in Runs :
        (Resolved(r) /\ ActiveCycleExists) =>
            /\ error[r].kind = "cyclic"
            /\ \A n \in Identities : OnActiveCycle(n) => n \in error[r].nodes
            /\ changes_to_apply[r] = <<>>
            /\ pc[r] = "done"

(* A cycle through two different pending changes was reported. *)
C3_Witness ==
    /\ Resolved(1)
    /\ error[1].kind = "cyclic"
    /\ \E a, b \in Identities : a # b /\ ActiveEdge(a, b) /\ ActiveEdge(b, a)

(* Pending identity whose declared dependencies are all already applied. *)
OnlyAppliedDependencies(c) ==
    /\ IsPending(c)
    /\ \E d \in Identities : Declares(c, d)
    /\ \A d \in Identities : Declares(c, d) => HasSuccessRow(d)

(* C4: a dependency on an applied identity creates no edge: a pending      *)
(* change whose only dependencies are applied has in-degree 0, is emitted  *)
(* by the sort, is never named by the circular-dependency error and is in  *)
(* every returned sequence; the circular-dependency error is raised only   *)
(* for a cycle of active edges, never for a declared cycle with an applied *)
(* member.                                                                 *)
C4_AppliedDependencySatisfied ==
    \A r \in Runs :
        /\ pc[r] = "kahn" =>
              \A c \in Identities : OnlyAppliedDependencies(c) => in_degrees[r][c] = 0
        /\ \A d \in Identities : HasSuccessRow(d) => graph[r][d] = <<>>
        /\ (Resolved(r) /\ pending_changes[r] # <<>>) =>
              \A c \in Identities :
                  OnlyAppliedDependencies(c) =>
                      /\ c \in Range(sorted_changes_nodes[r])
                      /\ c \notin error[r].nodes
        /\ Returned(r) =>
              \A c \in Identities :
                  OnlyAppliedDependencies(c) => c \in Range(ResolvedSequence(r))
        /\ (Resolved(r) /\ error[r].kind = "cyclic") => ActiveCycleExists

(* Two changes that declare each other, one of them applied: the pending   *)
(* one is returned.                                                        *)
C4_Witness ==
    /\ Returned(1)
    /\ \E a, b \in Identities :
          /\ a # b
          /\ Declares(a, b) /\ Declares(b, a)
          /\ HasSuccessRow(b) /\ IsLoaded(b)
          /\ OnlyAppliedDependencies(a)
          /\ a \in Range(ResolvedSequence(1))

(* The pending list without its dangling depends_on entries. *)
StripDangling(changes) ==
    [i \in DOMAIN changes |->
        [changes[i] EXCEPT !.depends_on = SelectSeq(@, LAMBDA d : IsLoaded(d))]]

DanglingDeclared ==
    \E c, d \in Identities : IsPending(c) /\ Declares(c, d) /\ ~IsLoaded(d)

OnlyDanglingDeclared ==
    \A c, d \in Identities : (IsPending(c) /\ Declares(c, d)) => ~IsLoaded(d)

(* C5: a dependency on an identity that no loaded change defines creates   *)
(* no edge and no error: the graph and the in-degrees are those of the     *)
(* pending list with the dangling entries removed, no edge starts at an    *)
(* undefined identity, and when every declared dependency is dangling the  *)
(* resolution succeeds with the pending changes in loader order.           *)
C5_DanglingDependencyIgnored ==
    \A r \in Runs :
        /\ (pc[r] = "kahn" /\ sorted_changes_nodes[r] = <<>>) =>
              LET built == BuildGraph(StripDangling(pending_changes[r]),
                                      ChangeLookup(all_defined_changes),
                                      applied_changes_from_db[r])
              IN /\ graph[r] = built.graph
                 /\ in_degrees[r] = built.in_degrees
        /\ \A d \in Identities : ~IsLoaded(d) => graph[r][d] = <<>>
        /\ (Resolved(r) /\ OnlyDanglingDeclared) =>
              /\ error[r] = NoError
              /\ ResolvedSequence(r) = KeyOrder(NodeIds(pending_changes[r]))

(* A dangling dependency next to an active edge, resolved. *)
C5_Witness ==
    /\ Returned(1)
    /\ DanglingDeclared
    /\ ActiveEdges # {}
    /\ Len(changes_to_apply[1]) >= 2

-----------------------------------------------------------------------------
(* Properties of the update run.                                           *)

RowNode(row) == <<row.changelog_path, row.change_id>>

(* No row has been inserted since the runs began. *)
HistoryUntouched == \A i \in DOMAIN history : history[i].run = 0

(* The history rows that run r inserted, in insertion order. *)
RunRows(r) == SelectSeq(history, LAMBDA row : row.run = r)

(* The nodes for which run r invoked `op`, in call order. *)
CalledNodes(r, op) ==
    LET mine == SelectSeq(calls, LAMBDA c : c.run = r /\ c.op = op)
    IN [i \in DOMAIN mine |-> mine[i].node]

(* The first k changes of the resolved sequence of run r. *)
FirstResolved(r, k) == {ResolvedSequence(r)[j] : j \in 1..k}

(* C7: the pending list is the loaded list, in loader order, without the   *)
(* changes whose identity has at least one history row of status success;  *)
(* rows of status pending or failed remove nothing, and a success row      *)
(* counts whatever other rows the identity has.                            *)
C7_PendingSet ==
    \A r \in Runs :
        (pc[r] \notin {"idle", "start"} /\ HistoryUntouched) =>
            pending_changes[r] =
                SelectSeq(all_defined_changes, LAMBDA c : ~HasSuccessRow(NodeId(c)))

(* A loaded change with a success row followed by a failed row is not      *)
(* pending, while a loaded change without success row is.                  *)
C7_Witness ==
    /\ pc[1] = "kahn"
    /\ Len(history) = 2
    /\ history[1].status = "success"
    /\ history[2].status = "failed"
    /\ RowNode(history[1]) = RowNode(history[2])
    /\ IsLoaded(RowNode(history[1]))
    /\ RowNode(history[1]) \notin Range(NodeIds(pending_changes[1]))
    /\ pending_changes[1] # <<>>

(* C8: once render_sql or execute_change has failed for change X in a run, *)
(* that call is the run's last, the loop stays at X, no row and no call of *)
(* the run concerns a change after X, and when the run is over its rows    *)
(* for X are failed with the error text and the exit code is 1.            *)
C8_FailFast ==
    \A r \in Runs :
        \A k \in DOMAIN calls :
            (calls[k].run = r /\ ~calls[k].ok) =>
                /\ \A j \in DOMAIN calls : j > k => calls[j].run # r
                /\ pc[r] \in {"except", "done"}
                /\ idx[r] \in DOMAIN changes_to_apply[r]
                /\ NodeId(CurrentChange(r)) = calls[k].node
                /\ \A i \in DOMAIN history :
                      history[i].run = r => RowNode(history[i]) \in FirstResolved(r, idx[r])
                /\ \A j \in DOMAIN calls :
                      calls[j].run = r => calls[j].node \in FirstResolved(r, idx[r])
                /\ pc[r] = "done" =>
                      /\ exit_code[r] = 1
                      /\ \E i \in DOMAIN history :
                            history[i].run = r /\ RowNode(history[i]) = calls[k].node
                      /\ \A i \in DOMAIN history :
                            (history[i].run = r /\ RowNode(history[i]) = calls[k].node) =>
                                /\ history[i].status = "failed"
                                /\ history[i].error_message =
                                      (IF calls[k].op = "render_sql"
                                       THEN "TemplateError" ELSE "EngineError")

(* The second of three resolved changes failed in the engine: the run is   *)
(* over, the third change was never attempted.                             *)
C8_Witness ==
    /\ pc[1] = "done"
    /\ Len(changes_to_apply[1]) = 3
    /\ idx[1] = 2
    /\ \E k \in DOMAIN calls : ~calls[k].ok /\ calls[k].op = "execute_change"
    /\ Len(RunRows(1)) = 2

(* No collaborator call of run r has failed. *)
NoFailure(r) == \A k \in DOMAIN calls : calls[k].run = r => calls[k].ok

(* C9: while no apply has failed, the run's engine calls and its history   *)
(* rows follow the resolved sequence one change at a time: one row per     *)
(* change, every row before the current change already success, only the  *)
(* row of the change in flight pending; the finished run has exit code 0   *)
(* and one success row for every change of the resolved sequence.          *)
C9_SequentialSuccess ==
    \A r \in Runs :
        (pc[r] \in {"apply", "render", "execute", "executed", "done"}
            /\ NoFailure(r) /\ changes_to_apply[r] # <<>>) =>
            LET seq == ResolvedSequence(r)
                rows == RunRows(r)
                inflight == pc[r] \in {"render", "execute", "executed"}
            IN /\ Len(rows) = (IF inflight THEN idx[r] ELSE idx[r] - 1)
               /\ \A i \in DOMAIN rows :
                     /\ RowNode(rows[i]) = seq[i]
                     /\ rows[i].status = (IF i < idx[r] THEN "success" ELSE "pending")
               /\ CalledNodes(r, "execute_change") =
                     SubSeq(seq, 1, IF pc[r] = "executed" THEN idx[r] ELSE idx[r] - 1)
               /\ CalledNodes(r, "render_sql") =
                     SubSeq(seq, 1, IF pc[r] \in {"execute", "executed"}
                                    THEN idx[r] ELSE idx[r] - 1)
               /\ pc[r] = "done" =>
                     /\ exit_code[r] = 0
                     /\ Len(rows) = Len(seq)

(* The end-to-end run on an empty history: A, B (depends_on A) and C       *)
(* (depends_on B) were applied in that order and the history holds their   *)
(* three success rows.                                                     *)
C9_Witness ==
    /\ pc[1] = "done"
    /\ exit_code[1] = 0
    /\ Len(all_defined_changes) = 3
    /\ all_defined_changes \in EndToEndLists
    /\ CalledNodes(1, "execute_change") = NodeIds(all_defined_changes)
    /\ Len(history) = 3
    /\ \A i \in DOMAIN history :
          /\ history[i].run = 1
          /\ history[i].status = "success"
          /\ RowNode(history[i]) = NodeId(all_defined_changes[i])

(* C10: every render_sql and execute_change call of a run concerns a       *)
(* change for which that run has inserted a history row; while the call is *)
(* the latest and the terminal update is outstanding, that row is pending. *)
C10_PendingRecordFirst ==
    \A k \in DOMAIN calls :
        /\ \E i \in DOMAIN history :
              history[i].run = calls[k].run /\ RowNode(history[i]) = calls[k].node
        /\ (k = Len(calls) /\ pc[calls[k].run] \in {"execute", "executed", "except"}) =>
              \E i \in DOMAIN history :
                  /\ history[i].run = calls[k].run
                  /\ RowNode(history[i]) = calls[k].node
                  /\ history[i].status = "pending"

(* The text of a change has been sent to the engine and its terminal       *)
(* status is not written yet.                                              *)
C10_Witness ==
    /\ pc[1] = "executed"
    /\ calls # <<>>
    /\ calls[Len(calls)].op = "execute_change"
    /\ \E i \in DOMAIN history :
          /\ history[i].run = 1
          /\ RowNode(history[i]) = calls[Len(calls)].node
          /\ history[i].status = "pending"

-----------------------------------------------------------------------------
(* Properties of the load and of the runs that follow it.                  *)

LoadFailed(r) == error[r].kind \in {"ValueError", "FileNotFoundError"}

(* Run r has written no history row and called neither the renderer nor    *)
(* the executor.                                                           *)
NothingExecuted(r) ==
    /\ \A i \in DOMAIN history : history[i].run # r
    /\ \A k \in DOMAIN calls : calls[k].run # r

(* C11: a run writes no history row and makes no renderer or executor call *)
(* before both the load and the resolution have succeeded; a run whose     *)
(* load or resolution failed is over with exit code 1, has returned no     *)
(* change to the loop and has written and called nothing, although changes *)
(* may have been accumulated before the failing entry.                     *)
C11_NothingExecutedOnStructuralError ==
    \A r \in Runs :
        /\ pc[r] \in {"begin", "load", "start", "kahn"} => NothingExecuted(r)
        /\ (LoadFailed(r) \/ ResolutionFailed(r)) =>
              /\ pc[r] = "done"
              /\ exit_code[r] = 1
              /\ changes_to_apply[r] = <<>>
              /\ NothingExecuted(r)
        /\ LoadFailed(r) => all_defined_changes = <<>>

(* The load failed in an included file after a valid sql entry of the      *)
(* master file had been accumulated: nothing was written or called.        *)
C11_Witness ==
    /\ pc[1] = "done"
    /\ LoadFailed(1)
    /\ all_parsed_changes # <<>>
    /\ "sub.yaml" \in processed_files
    /\ FaultCount(files["sub.yaml"]) = 1
    /\ history = <<>>
    /\ calls = <<>>

(* The history query of run r raised. *)
QueryFailed(r) ==
    \E k \in DOMAIN log :
        log[k].what = "could not query state manager" /\ log[k].subject = r

(* The identities for which execute_change returned in run r. *)
SucceededIn(r) ==
    {calls[k].node : k \in {j \in DOMAIN calls :
        calls[j].run = r /\ calls[j].op = "execute_change" /\ calls[j].ok}}

(* Run 1 was an update of the chain A, B (depends_on A), C (depends_on B)  *)
(* that applied A and failed on B.                                         *)
FailedOnSecondOfChain ==
    /\ all_defined_changes \in EndToEndLists
    /\ Len(all_defined_changes) = 3
    /\ command[1] = "update"
    /\ pc[1] = "done"
    /\ exit_code[1] = 1
    /\ idx[1] = 2

(* C12: an update run that follows a finished update run on an empty       *)
(* history, and whose history query is answered, has as pending list the   *)
(* loaded changes that the first run did not apply, in loader order, and   *)
(* never renders or executes a change the first run applied; after a first *)
(* run that applied A and failed on B, the pending list is B, C, the       *)
(* resolved sequence is B, C, and B is attempted before C.                 *)
C12_RerunAfterPartialFailure ==
    (command[1] = "update" /\ command[2] = "update" /\ pc[1] = "done"
        /\ pc[2] # "start" /\ ~QueryFailed(2)) =>
        /\ pending_changes[2] =
              SelectSeq(all_defined_changes, LAMBDA c : NodeId(c) \notin SucceededIn(1))
        /\ \A k \in DOMAIN calls : calls[k].run = 2 => calls[k].node \notin SucceededIn(1)
        /\ FailedOnSecondOfChain =>
              LET B == NodeId(all_defined_changes[2])
                  C == NodeId(all_defined_changes[3])
              IN /\ NodeIds(pending_changes[2]) = <<B, C>>
                 /\ ~ResolutionFailed(2)
                 /\ pc[2] # "kahn" => ResolvedSequence(2) = <<B, C>>
                 /\ CalledNodes(2, "execute_change") \in {<<>>, <<B>>, <<B, C>>}
                 /\ CalledNodes(2, "render_sql") \in {<<>>, <<B>>, <<B, C>>}

(* The second run, after a first run that applied A and failed on B in the *)
(* engine, has applied B and then C.                                       *)
C12_Witness ==
    /\ FailedOnSecondOfChain
    /\ \E k \in DOMAIN calls :
          calls[k].run = 1 /\ calls[k].op = "execute_change" /\ ~calls[k].ok
    /\ command[2] = "update"
    /\ pc[2] = "done"
    /\ exit_code[2] = 0
    /\ CalledNodes(2, "execute_change") =
          <<NodeId(all_defined_changes[2]), NodeId(all_defined_changes[3])>>

(* C13: the step that records the failure of change X modifies only rows   *)
(* whose (changelog_path, change_id) is X's identity: no row is added or   *)
(* removed, every row of another identity is left as it is, and the rows   *)
(* that the run inserted for the changes it applied before X have status   *)
(* success before and after; the failing renderer or engine call itself    *)
(* leaves the history as it is.                                            *)
C13_FailureLeavesOtherRows ==
    [][\A r \in Runs :
          /\ (pc[r] # "except" /\ pc'[r] = "except") => history' = history
          /\ (pc[r] = "except" /\ pc'[r] = "done") =>
                LET X == NodeId(CurrentChange(r))
                IN /\ Len(history') = Len(history)
                   /\ \A i \in DOMAIN history :
                         /\ RowNode(history'[i]) = RowNode(history[i])
                         /\ history'[i].run = history[i].run
                         /\ RowNode(history[i]) # X => history'[i] = history[i]
                         /\ (history[i].run = r /\ RowNode(history[i]) # X) =>
                               /\ history[i].status = "success"
                               /\ history'[i].status = "success"
       ]_vars

(* A run that applied one change and failed on the next is over: the       *)
(* history holds an earlier pending row of a third identity, the success   *)
(* row of the applied change and the failed row of the failing one.        *)
C13_Witness ==
    /\ pc[1] = "done"
    /\ exit_code[1] = 1
    /\ idx[1] = 2
    /\ \E i, j, k \in DOMAIN history :
          /\ history[i].run = 0
          /\ history[i].status = "pending"
          /\ history[j].run = 1
          /\ history[j].status = "success"
          /\ history[k].run = 1
          /\ history[k].status = "failed"
          /\ RowNode(history[i]) \notin {RowNode(history[j]), RowNode(history[k])}
          /\ history[i].change_id = history[k].change_id

TerminalStatuses == {"success", "failed"}

(* C14: across the runs every history row is inserted with status pending, *)
(* a pending row is only ever changed by giving it a terminal status, and  *)
(* a row that holds a terminal status is never modified again.             *)
C14_RowUpdatedOnce ==
    [][/\ Len(history') >= Len(history)
       /\ \A i \in DOMAIN history' :
             IF i \in DOMAIN history
             THEN /\ history[i].status \in TerminalStatuses => history'[i] = history[i]
                  /\ history[i].status = "pending" =>
                        \/ history'[i] = history[i]
                        \/ history'[i].status \in TerminalStatuses
             ELSE history'[i].status = "pending"
      ]_vars

(* The row that the first run left failed for a change reads success after *)
(* the second run applied that change.                                     *)
C14_Witness ==
    /\ pc[2] = "done"
    /\ \E k \in DOMAIN calls, i \in DOMAIN history :
          /\ calls[k].run = 1
          /\ ~calls[k].ok
          /\ history[i].run = 1
          /\ RowNode(history[i]) = calls[k].node
          /\ history[i].status = "success"
          /\ history[i].error_message = ""

PendingRowsOf(n) ==
    {i \in DOMAIN history : RowNode(history[i]) = n /\ history[i].status = "pending"}

(* No identity has two rows of status pending. *)
AtMostOnePendingPerIdentity ==
    \A n \in AllIdentities : Cardinality(PendingRowsOf(n)) <= 1

(* No row is removed or given another identity. *)
RowsKept ==
    /\ Len(history') >= Len(history)
    /\ \A i \in DOMAIN history : RowNode(history'[i]) = RowNode(history[i])

(* A terminal status, once a row has one, is the outcome of that row. *)
OutcomeKept ==
    \A i \in DOMAIN history :
        history[i].status \in TerminalStatuses => history'[i].status = history[i].status

(* C15: in every state each identity has at most one pending row; no row   *)
(* is ever lost; and a row that has reached a terminal status keeps that   *)
(* one outcome.                                                            *)
C15_OnePendingOneOutcome ==
    /\ []AtMostOnePendingPerIdentity
    /\ [][RowsKept /\ OutcomeKept]_vars

(* After the second run the row of the first run's failed attempt reads    *)
(* success: the attempt has had two terminal outcomes.                     *)
C15_Witness ==
    /\ pc[2] = "done"
    /\ exit_code[1] = 1
    /\ exit_code[2] = 0
    /\ Len(history) = 2
    /\ history[1].run = 1
    /\ history[2].run = 2
    /\ RowNode(history[1]) = RowNode(history[2])
    /\ history[1].status = "success"

(* Run r is the invocation in progress (the second starts when the first   *)
(* is over).                                                               *)
InProgress(r) ==
    /\ pc[r] \notin {"idle", "done"}
    /\ r = 2 => pc[1] = "done"

(* C16: a dry-run inserts and updates no history row: no row was inserted  *)
(* by it and every step of it leaves the history as it is; it never calls  *)
(* execute_change, only render_sql and the executor's dry_run, one change  *)
(* after the other in resolved order; and its pending list is the one of   *)
(* update: the loaded changes without success row, in loader order.        *)
C16_DryRunWritesNothing ==
    /\ [](\A r \in Runs :
            command[r] = "dry_run" =>
                /\ \A i \in DOMAIN history : history[i].run # r
                /\ \A k \in DOMAIN calls :
                      calls[k].run = r => calls[k].op \in {"render_sql", "dry_run"}
                /\ pc[r] \in {"report", "preview"} =>
                      CalledNodes(r, "dry_run") = SubSeq(ResolvedSequence(r), 1, idx[r] - 1)
                /\ (InProgress(r) /\ pc[r] # "start" /\ ~QueryFailed(r)) =>
                      pending_changes[r] =
                          SelectSeq(all_defined_changes,
                                    LAMBDA c : ~HasSuccessRow(NodeId(c))))
    /\ [][\A r \in Runs :
            (command[r] = "dry_run" /\ InProgress(r)) => history' = history]_vars

(* A dry-run after an update that applied one change and failed on the     *)
(* next: it previewed the two changes that are still pending and the       *)
(* history holds the two rows of the update.                               *)
C16_Witness ==
    /\ command = <<"update", "dry_run">>
    /\ pc[2] = "done"
    /\ exit_code[1] = 1
    /\ Len(all_defined_changes) = 3
    /\ Len(CalledNodes(2, "dry_run")) = 2
    /\ Len(history) = 2
    /\ history[1].status = "success"
    /\ history[2].status = "failed"

(* What get_unapplied_changes and its caller receive in run r: the applied *)
(* set, and the returned list or the raised error.                         *)
CallerView(r) == <<applied_changes_from_db[r], changes_to_apply[r], error[r]>>

(* After a failed history query no loaded change is dropped and the run    *)
(* goes on: every loaded change is pending and no error stems from the     *)
(* read failure.                                                           *)
FailsOpen ==
    \A r \in Runs :
        (QueryFailed(r) /\ pc[r] # "start") =>
            /\ applied_changes_from_db[r] = {}
            /\ pending_changes[r] = all_defined_changes
            /\ error[r].kind # "HistoryReadError"
            /\ (pc[r] = "done" /\ error[r] = NoError) => exit_code[r] = 0

(* The caller can tell a failed history query from an answered one: on the *)
(* same files and a history without rows, what the caller receives after a *)
(* failed query differs from what it receives after an answered one.       *)
AnomalyReportedToCaller ==
    \A r, q \in Runs :
        (QueryFailed(r) /\ ~QueryFailed(q) /\ Resolved(r) /\ Resolved(q)
            /\ history = <<>> /\ all_defined_changes # <<>>) =>
            CallerView(r) # CallerView(q)

(* C17: when the history query fails, no change is dropped, the run does   *)
(* not end because of the read failure, and the failure is reported to the *)
(* caller.                                                                 *)
C17_FailOpenReported == FailsOpen /\ AnomalyReportedToCaller

(* The history query of the second run failed after the first run had      *)
(* applied a change: the change is pending again and is executed again.    *)
C17_Witness ==
    /\ QueryFailed(2)
    /\ ~QueryFailed(1)
    /\ \E j, k \in DOMAIN calls :
          /\ calls[j].run = 1 /\ calls[j].op = "execute_change" /\ calls[j].ok
          /\ calls[k].run = 2 /\ calls[k].op = "execute_change" /\ calls[k].ok
          /\ calls[j].node = calls[k].node
          /\ HasSuccessRow(calls[j].node)

(* Two entries of the loaded list carry the same (changelog_file, id).     *)
DuplicateIdentityLoaded ==
    \E i, j \in DOMAIN all_defined_changes :
        i # j /\ NodeId(all_defined_changes[i]) = NodeId(all_defined_changes[j])

(* C18: identities are unique within one load: a load that meets two       *)
(* changes with the same identity ends in an error, so the list a load     *)
(* returns never holds the same identity twice.                            *)
C18_DuplicateIdentityIsLoadError == ~DuplicateIdentityLoaded

(* The update run ended with exit code 0 on a list holding one identity    *)
(* twice: the engine was called once for the two entries.                  *)
C18_Witness ==
    /\ DuplicateIdentityLoaded
    /\ Len(all_defined_changes) = 2
    /\ pc[1] = "done"
    /\ exit_code[1] = 0
    /\ Cardinality({k \in DOMAIN calls : calls[k].op = "execute_change"}) = 1

(* The load of run r is over: the list was returned or an entry raised. *)
LoadOver(r) == pc[r] \in {"start", "done"}

(* The number of times the loader has begun to parse the file. *)
TimesParsed(filepath) ==
    Cardinality({k \in DOMAIN log :
                    log[k] = LogRecord("debug", "parsing", filepath)})

ParsedAtMostOnce ==
    /\ \A filepath \in Paths : TimesParsed(filepath) <= 1
    /\ Len(load_stack) <= Cardinality(Paths)

(* The next entry of the file being parsed is a well-formed include of a   *)
(* file that has already been visited in this load.                        *)
AtVisitedInclude ==
    /\ pc[1] = "load"
    /\ HasNextEntry
    /\ TopEntry.type = "yaml"
    /\ IsFile(TopEntry.file)
    /\ \A k \in DOMAIN TopEntry.depends_on.items :
          LET dep_entry == TopEntry.depends_on.items[k]
          IN dep_entry.is_dict /\ dep_entry.changelog_path # "" /\ dep_entry.change_id # ""
    /\ TopEntry.depends_on.is_list
    /\ TopEntry.file \in processed_files

(* The include is left behind with nothing parsed, added or raised: the    *)
(* loader goes on with the entry after it.                                 *)
VisitedIncludeIsNoOp ==
    AtVisitedInclude =>
        /\ load_stack' = Advanced
        /\ all_parsed_changes' = all_parsed_changes
        /\ processed_files' = processed_files
        /\ error' = error
        /\ pc' = pc

(* C19: the load always ends, also on files that include each other or     *)
(* themselves; every file is parsed at most once in a load, and an include *)
(* of a visited path adds no change and raises no error.                   *)
C19_LoadTerminates ==
    /\ <>LoadOver(1)
    /\ []ParsedAtMostOnce
    /\ [][VisitedIncludeIsNoOp]_vars

(* master.yaml includes sub.yaml and sub.yaml includes master.yaml (or     *)
(* itself): the load returned changes, the include of the visited file     *)
(* having been passed with a warning.                                      *)
C19_Witness ==
    /\ pc[1] = "start"
    /\ all_defined_changes # <<>>
    /\ \E i \in DOMAIN files["master.yaml"] :
          /\ files["master.yaml"][i].type = "yaml"
          /\ files["master.yaml"][i].file = "sub.yaml"
    /\ \E i \in DOMAIN files["sub.yaml"] :
          /\ files["sub.yaml"][i].type = "yaml"
          /\ files["sub.yaml"][i].file \in Paths
          /\ LogRecord("warning", "circular include", files["sub.yaml"][i].file)
                \in {log[k] : k \in DOMAIN log}

(* The files an entry of the file includes. *)
IncludedBy(filepath) ==
    {files[filepath][i].file :
        i \in {k \in DOMAIN files[filepath] : files[filepath][k].type = "yaml"}}
    \cap Paths

RECURSIVE ReachableFrom(_)
ReachableFrom(reached) ==
    LET more == reached \cup UNION {IncludedBy(filepath) : filepath \in reached}
    IN IF more = reached THEN reached ELSE ReachableFrom(more)

(* The files reachable from the master file by inclusion. *)
ReachableFiles == ReachableFrom({MasterChangelog})

(* The sql entries of the reachable files, as (file, 0-based index). *)
ReachableSqlEntries ==
    {<<filepath, i - 1>> : filepath \in ReachableFiles, i \in 1..MaxMasterEntries}
    \cap {x \in Paths \X (0..(MaxMasterEntries - 1)) :
            /\ x[2] + 1 \in DOMAIN files[x[1]]
            /\ files[x[1]][x[2] + 1].type = "sql"}

(* Depth-first traversal of the entries of the file from position k on,    *)
(* skipping the files of `visited`: the changes met, in order, and the     *)
(* files visited.                                                          *)
RECURSIVE DepthFirst(_, _, _)
DepthFirst(filepath, k, visited) ==
    IF k > Len(files[filepath])
    THEN [changes |-> <<>>, visited |-> visited]
    ELSE LET e == files[filepath][k]
         IN IF e.type = "yaml" /\ e.file \in Paths \ visited
            THEN LET included == DepthFirst(e.file, 1, visited \cup {e.file})
                     rest == DepthFirst(filepath, k + 1, included.visited)
                 IN [changes |-> included.changes \o rest.changes,
                     visited |-> rest.visited]
            ELSE LET rest == DepthFirst(filepath, k + 1, visited)
                 IN [changes |-> (IF e.type = "sql"
                                  THEN <<<<filepath, k - 1>>>>
                                  ELSE <<>>) \o rest.changes,
                     visited |-> rest.visited]

(* The place of each returned change in the definition files. *)
ReturnedEntries ==
    [i \in DOMAIN all_defined_changes |->
        <<all_defined_changes[i].changelog_file, all_defined_changes[i].index>>]

(* The changes of the included file lie where the master file first        *)
(* includes it: after the master's entries before that include and before  *)
(* the master's entries after it.                                          *)
IncludedAtIncludeEntry ==
    \A inc \in DOMAIN files[MasterChangelog] :
        (/\ files[MasterChangelog][inc].type = "yaml"
         /\ files[MasterChangelog][inc].file = "sub.yaml"
         /\ \A k \in 1..(inc - 1) :
                ~(files[MasterChangelog][k].type = "yaml"
                    /\ files[MasterChangelog][k].file = "sub.yaml")) =>
        \A i, j \in DOMAIN all_defined_changes :
            (/\ all_defined_changes[i].changelog_file = MasterChangelog
             /\ all_defined_changes[j].changelog_file = "sub.yaml") =>
                (i < j <=> all_defined_changes[i].index + 1 < inc)

(* C20: the list get_all_changes returns holds the sql entries of the      *)
(* files reachable by inclusion in depth-first order, the changes of an    *)
(* included file at the place of the include entry, every reachable sql    *)
(* entry exactly once and no include entry as a change.                    *)
C20_DepthFirstOrder ==
    pc[1] = "start" =>
        /\ ReturnedEntries = DepthFirst(MasterChangelog, 1, {MasterChangelog}).changes
        /\ IncludedAtIncludeEntry
        /\ {ReturnedEntries[i] : i \in DOMAIN ReturnedEntries} = ReachableSqlEntries
        /\ \A i, j \in DOMAIN ReturnedEntries :
              ReturnedEntries[i] = ReturnedEntries[j] => i = j
        /\ \A i \in DOMAIN all_defined_changes :
              /\ all_defined_changes[i].type = "sql"
              /\ all_defined_changes[i] =
                    EntryChange(files[ReturnedEntries[i][1]][ReturnedEntries[i][2] + 1],
                                ReturnedEntries[i][2], ReturnedEntries[i][1])

(* master.yaml is a script, an include of sub.yaml and a script; sub.yaml  *)
(* includes master.yaml back and holds a script: the load returned the     *)
(* three changes with the one of sub.yaml in the middle.                   *)
C20_Witness ==
    /\ pc[1] = "start"
    /\ Len(files[MasterChangelog]) = 3
    /\ files[MasterChangelog][1].type = "sql"
    /\ files[MasterChangelog][2] = Entry("yaml", "", "sub.yaml", NoDependsOn)
    /\ files[MasterChangelog][3].type = "sql"
    /\ Entry("yaml", "", MasterChangelog, NoDependsOn)
          \in {files["sub.yaml"][i] : i \in DOMAIN files["sub.yaml"]}
    /\ ReturnedEntries = <<<<MasterChangelog, 0>>, <<"sub.yaml", 1>>, <<MasterChangelog, 2>>>>

DependencyErrorTexts ==
    {"Invalid 'depends_on' format", "Invalid dependency format",
     "Missing 'changelog_path' or 'change_id' in dependency"}

(* The loader is at an entry whose depends_on is not a list of items that  *)
(* each give a changelog path and a change id.                             *)
AtInvalidDependency ==
    /\ pc[1] = "load"
    /\ HasNextEntry
    /\ \/ ~TopEntry.depends_on.is_list
       \/ \E k \in DOMAIN TopEntry.depends_on.items :
             LET dep_entry == TopEntry.depends_on.items[k]
             IN ~(dep_entry.is_dict /\ dep_entry.changelog_path # ""
                    /\ dep_entry.change_id # "")

(* The step at such an entry ends the run with a validation error; nothing *)
(* is returned.                                                            *)
InvalidDependencyRaises ==
    AtInvalidDependency =>
        /\ error'[1].kind = "ValueError"
        /\ error'[1].msg.text \in DependencyErrorTexts
        /\ error'[1].msg.filepath = TopFrame.filepath
        /\ pc'[1] = "done"
        /\ exit_code'[1] = 1
        /\ all_defined_changes' = <<>>
        /\ all_parsed_changes' = all_parsed_changes

(* Every dependency of every change the load returned gives both parts. *)
LoadedDependenciesComplete ==
    \A i \in DOMAIN all_defined_changes :
        \A k \in DOMAIN all_defined_changes[i].depends_on :
            /\ all_defined_changes[i].depends_on[k][1] # ""
            /\ all_defined_changes[i].depends_on[k][2] # ""

(* C21: a dependency entry that lacks the changelog path or the change id  *)
(* ends the load with a validation error at the entry that declares it,    *)
(* whatever the type of that entry; resolution never starts on a list with *)
(* such a dependency.                                                      *)
C21_DependencyValidatedAtLoad ==
    /\ [][InvalidDependencyRaises]_vars
    /\ [](LoadedDependenciesComplete /\ (pc[1] \notin {"begin", "load", "done"} => ~LoadFailed(1)))

(* An include entry that declares a dependency without changelog path      *)
(* ended the load after a change had been parsed: the included file was    *)
(* not entered.                                                            *)
C21_Witness ==
    /\ pc[1] = "done"
    /\ error[1].kind = "ValueError"
    /\ error[1].msg.text = "Missing 'changelog_path' or 'change_id' in dependency"
    /\ error[1].msg.args[2] = DepEntry(TRUE, "", "a_0")
    /\ all_parsed_changes # <<>>
    /\ "sub.yaml" \notin processed_files
    /\ all_defined_changes = <<>>

(* The loader is at an entry whose type is neither "sql" nor "yaml"; a     *)
(* missing type reads as "".                                               *)
AtUnknownType ==
    /\ pc[1] = "load"
    /\ HasNextEntry
    /\ TopEntry.type \notin {"sql", "yaml"}

(* The values of the message, as a set. *)
MsgArgs(msg) == {msg.args[k] : k \in DOMAIN msg.args}

(* The step at such an entry ends the load with a validation error whose   *)
(* message names the file and the id of the entry; when the depends_on of  *)
(* the entry is valid, the message is the one of the unknown type, names   *)
(* the type too, and the entry is the first of that type in the file.      *)
UnknownTypeRaises ==
    AtUnknownType =>
        /\ error'[1].kind = "ValueError"
        /\ error'[1].msg.filepath = TopFrame.filepath
        /\ TopEntry.id \in MsgArgs(error'[1].msg)
        /\ ~AtInvalidDependency =>
              /\ error'[1].msg.text = "Unknown change type"
              /\ error'[1].msg.args = <<TopEntry.type, TopEntry.id>>
              /\ \A k \in 1..(TopFrame.pos - 1) :
                    files[TopFrame.filepath][k].type # TopEntry.type
        /\ pc'[1] = "done"
        /\ exit_code'[1] = 1
        /\ all_defined_changes' = <<>>

(* C22: an entry whose type is neither "sql" nor "yaml", a missing type    *)
(* included, ends the whole load with a validation error that names the    *)
(* file and the entry; the changes collected before it are not returned.   *)
C22_UnknownTypeFailsLoad ==
    /\ [][UnknownTypeRaises]_vars
    /\ [](LoadFailed(1) => all_defined_changes = <<>>)

(* An entry without type in the included file ended the load after changes *)
(* had been collected.                                                     *)
C22_Witness ==
    /\ pc[1] = "done"
    /\ error[1].kind = "ValueError"
    /\ error[1].msg = ErrorMsg("Unknown change type", "sub.yaml", <<"", "a_1">>)
    /\ all_parsed_changes # <<>>
    /\ all_defined_changes = <<>>

RECURSIVE JoinDots(_)
JoinDots(pieces) ==
    IF Len(pieces) = 1 THEN pieces[1]
    ELSE pieces[1] \o "." \o JoinDots(Tail(pieces))

(* The last component of the file reference without its extension: all    *)
(* its pieces but the last.                                                *)
BaseNameWithoutExtension(file_ref) ==
    LET pieces == FileName(file_ref).pieces
    IN JoinDots(SubSeq(pieces, 1, Len(pieces) - 1))

(* The entry of the definition files that the returned change i was built  *)
(* from.                                                                   *)
EntryOf(i) ==
    files[all_defined_changes[i].changelog_file][all_defined_changes[i].index + 1]

(* C23: a returned change whose entry has no id has the id                 *)
(* <base name of the script without extension>_<0-based position of the    *)
(* entry among all entries of its file>; an explicit id is kept unchanged. *)
C23_DerivedId ==
    pc[1] = "start" =>
        \A i \in DOMAIN all_defined_changes :
            /\ EntryOf(i).type = "sql"
            /\ EntryOf(i).file = all_defined_changes[i].file_path
            /\ all_defined_changes[i].id =
                  IF EntryOf(i).id # "" THEN EntryOf(i).id
                  ELSE BaseNameWithoutExtension(EntryOf(i).file) \o "_"
                          \o ToString(all_defined_changes[i].index)

(* The entries without id for 001_init.sql at position 0 and, after an     *)
(* include, at position 2 were returned as 001_init_0 and 001_init_2.      *)
C23_Witness ==
    /\ pc[1] = "start"
    /\ Len(files[MasterChangelog]) = 3
    /\ files[MasterChangelog][1] = Entry("sql", "", "001_init.sql", NoDependsOn)
    /\ files[MasterChangelog][2].type = "yaml"
    /\ files[MasterChangelog][3] = Entry("sql", "", "001_init.sql", NoDependsOn)
    /\ all_defined_changes[1].id = "001_init_0"
    /\ all_defined_changes[Len(all_defined_changes)].id = "001_init_2"

(* An entry without id for v1.2.sql was returned with the id cut at the    *)
(* first dot of the file name.                                             *)
C23_CutAtFirstDot ==
    /\ pc[1] = "start"
    /\ \E i \in DOMAIN all_defined_changes :
          /\ EntryOf(i) = Entry("sql", "", "v1.2.sql", NoDependsOn)
          /\ all_defined_changes[i].id = "v1_" \o ToString(all_defined_changes[i].index)

(* A step is a call of generate_unique_id_int: only a call changes the     *)
(* generator's timestamp or counter, and every call changes one of them.   *)
IdGenerated == <<last_timestamp_ms, counter>>' # <<last_timestamp_ms, counter>>

(* C24: every call of generate_unique_id_int returns a value greater than  *)
(* the value of the call before it, so the values of successive calls are  *)
(* pairwise distinct, however many calls fall into one millisecond.        *)
C24_IdsStrictlyIncrease == [][IdGenerated => unique_id' > unique_id]_vars

(* The call number 1001 within one millisecond returned an id in the space *)
(* of the next millisecond.                                                *)
C24_Witness ==
    /\ counter = IdsPerMillisecond
    /\ unique_id = UniqueId(last_timestamp_ms + 1, 0)

(* What the update run r did not bring to a good end: a call that raised   *)
(* or a row of the run that is not success.                                *)
ApplyErrorIn(r) ==
    \/ \E k \in DOMAIN calls : calls[k].run = r /\ ~calls[k].ok
    \/ \E i \in DOMAIN history : history[i].run = r /\ history[i].status # "success"

(* Every change of the loaded list has a success row and the engine was    *)
(* called for it in run r.                                                 *)
EveryLoadedChangeApplied(r) ==
    \A i \in DOMAIN all_defined_changes :
        /\ HasSuccessRow(NodeId(all_defined_changes[i]))
        /\ \E k \in DOMAIN calls :
              /\ calls[k] = Call("execute_change", r, all_defined_changes[i], TRUE)

(* C25: the update command ends with exit code 0 exactly when no load,     *)
(* validation, cycle or apply error occurred; then every pending change    *)
(* was applied (or nothing was pending); after any such error the exit     *)
(* code is not 0.                                                          *)
C25_ExitCode ==
    pc[1] = "done" =>
        /\ exit_code[1] \in {0, 1}
        /\ exit_code[1] = 0 <=>
              /\ error[1] = NoError
              /\ MasterChangelogExists
              /\ ~ApplyErrorIn(1)
              /\ EveryLoadedChangeApplied(1)
        /\ (LoadFailed(1) \/ ResolutionFailed(1) \/ ApplyErrorIn(1)) => exit_code[1] # 0

(* The four ends of an update run: all applied, nothing to apply, and each *)
(* kind of error.                                                          *)
C25_Witness ==
    /\ pc[1] = "done"
    /\ exit_code[1] = 0
    /\ Len(all_defined_changes) = 2
    /\ Len(history) = 2

C25_WitnessNothingPending ==
    pc[1] = "done" /\ exit_code[1] = 0 /\ all_defined_changes = <<>> /\ calls = <<>>

C25_WitnessApplyError ==
    pc[1] = "done" /\ exit_code[1] = 1 /\ error[1].kind = "EngineError"

C25_WitnessCycle ==
    pc[1] = "done" /\ exit_code[1] = 1 /\ error[1].kind = "cyclic"

C25_WitnessMasterNotFound ==
    pc[1] = "done" /\ exit_code[1] = 1 /\ ~MasterChangelogExists

(* Row i is the pending record of an attempt that was cut off: it is       *)
(* pending and the run that wrote it was terminated.                       *)
LeftPendingByCrash(i) ==
    /\ i \in DOMAIN history
    /\ history[i].status = "pending"
    /\ history[i].run \in Runs
    /\ pc[history[i].run] = "killed"

(* C26: the pending record of a change whose run was terminated between    *)
(* log_start and the terminal update stays pending: no later step of any   *)
(* run changes it.                                                         *)
C26_CrashedPendingStaysPending ==
    [][\A i \in DOMAIN history : LeftPendingByCrash(i) => history'[i] = history[i]]_vars

(* The first run was terminated while its change was pending; the second   *)
(* run applied the change, and the record of the first run reads success   *)
(* although the first run never got an answer from the engine.             *)
C26_Witness ==
    /\ pc[1] = "killed"
    /\ pc[2] = "done"
    /\ \E i \in DOMAIN history :
          /\ history[i].run = 1
          /\ history[i].status = "success"
          /\ \A k \in DOMAIN calls :
                ~(calls[k].run = 1 /\ calls[k].op = "execute_change"
                    /\ calls[k].node = <<history[i].changelog_path, history[i].change_id>>)

(* The place of the pending node in the loader's traversal order. *)
TraversalPos(r, n) ==
    LET order == KeyOrder(NodeIds(pending_changes[r]))
    IN CHOOSE k \in DOMAIN order : order[k] = n

InTraversalOrder(r, nodes) ==
    \A i, j \in DOMAIN nodes : i < j => TraversalPos(r, nodes[i]) < TraversalPos(r, nodes[j])

(* The step is an iteration of `while queue` of run r. *)
Emits(r) == pc[r] = "kahn" /\ sorted_changes_nodes'[r] # sorted_changes_nodes[r]

Emitted(r) == sorted_changes_nodes'[r][Len(sorted_changes_nodes'[r])]

(* The pending nodes of in-degree 0 that have not been emitted. *)
Eligible(r) ==
    {n \in DOMAIN in_degrees[r] :
        in_degrees[r][n] = 0 /\ n \notin Range(sorted_changes_nodes[r])}

(* C27: whenever several pending nodes have in-degree 0, the one that      *)
(* comes first in traversal order is emitted next.                         *)
C27_TraversalFirstEmitted ==
    [][\A r \in Runs :
          Emits(r) =>
              \A m \in Eligible(r) : TraversalPos(r, Emitted(r)) <= TraversalPos(r, m)]_vars

(* C27, as the code has it: the eligible nodes wait in a first-in          *)
(* first-out queue.  The node emitted is the one that has been eligible    *)
(* longest; the nodes eligible from the start, and the nodes that become   *)
(* eligible by the emission of one node, enter the queue in traversal      *)
(* order, behind the nodes already waiting (for the latter, provided no    *)
(* identity is loaded twice).                                              *)
C27_FifoWithTraversalTies ==
    /\ [](\A r \in Runs :
            (pc[r] = "kahn" /\ sorted_changes_nodes[r] = <<>>) =>
                /\ InTraversalOrder(r, queue[r])
                /\ Range(queue[r]) = Eligible(r))
    /\ [][\A r \in Runs :
            Emits(r) =>
                /\ Emitted(r) = Head(queue[r])
                /\ Len(queue'[r]) >= Len(queue[r]) - 1
                /\ SubSeq(queue'[r], 1, Len(queue[r]) - 1) = Tail(queue[r])
                /\ ~DuplicateIdentityLoaded =>
                      InTraversalOrder(r, SubSeq(queue'[r], Len(queue[r]), Len(queue'[r])))
                /\ Range(queue'[r]) = Eligible(r)']_vars

(* Three pending changes in traversal order 1, 2, 3, the first depending   *)
(* on the second: the sequence returned is 2, 3, 1, and 2, 1, 3 is the     *)
(* topological order that is smallest in traversal order.                  *)
C27_Witness ==
    /\ Returned(1)
    /\ NodeIds(pending_changes[1]) = <<IdentityOrder[1], IdentityOrder[2], IdentityOrder[3]>>
    /\ ActiveEdges = {<<IdentityOrder[2], IdentityOrder[1]>>}
    /\ ResolvedSequence(1) = <<IdentityOrder[2], IdentityOrder[3], IdentityOrder[1]>>

(* C28: when resolution fails with the circular-dependency error, every    *)
(* identity the error names lies on a cycle of active edges; a change that *)
(* only depends on a member of a cycle is not named.                       *)
C28_OnlyCycleMembersNamed ==
    \A r \in Runs :
        (Resolved(r) /\ error[r].kind = "cyclic") =>
            \A n \in error[r].nodes : OnActiveCycle(n)

(* The error names a change that lies on no cycle and depends on a member  *)
(* of one.                                                                 *)
C28_Witness ==
    /\ Resolved(1)
    /\ error[1].kind = "cyclic"
    /\ \E n \in error[1].nodes :
          /\ ~OnActiveCycle(n)
          /\ \E d \in Identities : ActiveEdge(d, n) /\ OnActiveCycle(d)

(* The calls of `op` that run r made for the identity. *)
CallsFor(r, op, n) ==
    {k \in DOMAIN calls : calls[k].run = r /\ calls[k].op = op /\ calls[k].node = n}

(* C29: within one update run the engine is called at most once for each   *)
(* identity, as are log_start and the renderer, and a call that failed is  *)
(* the last call of its run: nothing is retried.                           *)
C29_AtMostOnceInRun ==
    \A r \in Runs :
        /\ \A n \in AllIdentities :
              /\ Cardinality(CallsFor(r, "execute_change", n)) <= 1
              /\ Cardinality(CallsFor(r, "render_sql", n)) <= 1
              /\ Cardinality({i \in DOMAIN history :
                                 history[i].run = r /\ RowNode(history[i]) = n}) <= 1
        /\ \A k \in DOMAIN calls :
              (calls[k].run = r /\ ~calls[k].ok) =>
                  \A j \in DOMAIN calls : j > k => calls[j].run # r

(* The engine failed on a change in the first run, which ended there; the  *)
(* second run called the engine for the same change again.                 *)
C29_Witness ==
    /\ pc[1] = "done" /\ pc[2] = "done"
    /\ command = [r \in Runs |-> "update"]
    /\ \E n \in AllIdentities :
          /\ \E k \in CallsFor(1, "execute_change", n) : ~calls[k].ok
          /\ \E k \in CallsFor(2, "execute_change", n) : calls[k].ok
    /\ Len(all_defined_changes) >= 2

(* The queries for the applied identities that run r has issued: each one  *)
(* leaves a log record, of its answer or of its failure.                   *)
AppliedQueries(r) ==
    {k \in DOMAIN log :
        /\ log[k].subject = r
        /\ log[k].what \in {"retrieved applied changes", "could not query state manager"}}

(* The pending list and the edges of run r are those of the set that the   *)
(* query of run r returned.                                                *)
BuiltFromSnapshot(r) ==
    LET applied == applied_changes_from_db[r]
        pending == PendingChanges(all_defined_changes, applied)
    IN /\ pending_changes[r] = pending
       /\ pending # <<>> =>
             graph[r] = BuildGraph(pending, ChangeLookup(all_defined_changes), applied).graph

(* C30: a run issues exactly one query for the applied identities; the     *)
(* pending filter and the edges are both computed from its answer; and no  *)
(* step after the query, a write to the history included, changes the      *)
(* answer, the pending list, the edges or the resolved order of the run.   *)
C30_OneSnapshot ==
    /\ [](\A r \in Runs :
            /\ Cardinality(AppliedQueries(r)) = IF pc[r] \in {"idle", "start"} THEN 0 ELSE 1
            /\ pc[r] \notin {"idle", "start"} => BuiltFromSnapshot(r))
    /\ [][\A r \in Runs :
            /\ pc[r] \notin {"idle", "start"} =>
                  /\ applied_changes_from_db'[r] = applied_changes_from_db[r]
                  /\ pending_changes'[r] = pending_changes[r]
                  /\ graph'[r] = graph[r]
            /\ pc[r] \notin {"idle", "start", "kahn"} =>
                  changes_to_apply'[r] = changes_to_apply[r]]_vars

(* The second run has written a success row since its query: the set it    *)
(* works from is no longer the set of identities with a success row.       *)
C30_Witness ==
    /\ pc[2] = "apply"
    /\ applied_changes_from_db[2] # {}
    /\ \E i \in DOMAIN history : history[i].run = 2 /\ history[i].status = "success"
    /\ applied_changes_from_db[2] # AppliedFromRows(history)
    /\ idx[2] <= Len(changes_to_apply[2])

(* Run r got the answer of the engine that the change of identity n was    *)
(* applied.                                                                *)
AppliedBy(r, n) == \E k \in CallsFor(r, "execute_change", n) : calls[k].ok

(* C31: two concurrent update invocations can apply the same change twice: *)
(* a run calls the engine for an identity exactly when the set it read     *)
(* does not hold the identity, whatever the other run has written since,   *)
(* so an identity applied by both runs was in neither run's set.           *)
C31_DoubleApplyByStaleRead ==
    /\ \A r \in Runs : \A n \in Identities :
          /\ n \in applied_changes_from_db[r] => CallsFor(r, "execute_change", n) = {}
          /\ (pc[r] = "done" /\ exit_code[r] = 0 /\ IsLoaded(n)
                /\ n \notin applied_changes_from_db[r]) => AppliedBy(r, n)
    /\ \A n \in Identities :
          (AppliedBy(1, n) /\ AppliedBy(2, n)) =>
              n \notin applied_changes_from_db[1] \cup applied_changes_from_db[2]

(* Both runs read the applied set before either wrote a success row, and   *)
(* both applied the same change: the history holds two success rows of it. *)
C31_Witness ==
    \E n \in Identities :
        /\ AppliedBy(1, n) /\ AppliedBy(2, n)
        /\ pc[1] = "done" /\ pc[2] = "done"
        /\ exit_code = [r \in Runs |-> 0]
        /\ Cardinality({i \in DOMAIN history :
                          RowNode(history[i]) = n /\ history[i].status = "success"}) = 2

(* The ids returned so far, in the order in which their calls acquired the *)
(* lock, increase strictly.                                                *)
IssuedIdsIncrease ==
    \A i, j \in DOMAIN issued :
        (i < j /\ issued[i].id # -1 /\ issued[j].id # -1) => issued[i].id < issued[j].id

(* At most one thread is between acquiring and releasing the lock. *)
OneThreadInside == Cardinality({t \in Threads : thread_pc[t] # "idle"}) <= 1

(* C32: with calls from several threads, the section from reading the      *)
(* clock to combining the id is entered by one thread at a time; no two    *)
(* calls return the same id and the ids increase strictly in the order in  *)
(* which the calls acquired the lock, the clock not running backwards and  *)
(* fewer than 1000 calls falling into one millisecond.                     *)
C32_ThreadSafeIds ==
    counter < IdsPerMillisecond =>
        /\ OneThreadInside
        /\ IssuedIdsIncrease
        /\ \A t \in Threads : thread_pc[t] # "idle" => lock_owner = t

(* Calls of both threads within one millisecond and one in the next, a     *)
(* thread waiting for the lock meanwhile.                                  *)
C32_Witness ==
    /\ Len(issued) = 4
    /\ issued[1] = [thread |-> 1, id |-> 0]
    /\ issued[2] = [thread |-> 2, id |-> 1]
    /\ issued[3] = [thread |-> 1, id |-> 1000]
    /\ issued[4] = [thread |-> 2, id |-> -1]

(* s is an initial segment of t. *)
IsPrefix(s, t) == Len(s) <= Len(t) /\ \A i \in DOMAIN s : s[i] = t[i]

(* The changes dry_run run r reported, in order. *)
Reported(r) == CalledNodes(r, "dry_run")

(* The changes update run r attempted, in order: one pending row each. *)
Attempted(r) == [i \in DOMAIN RunRows(r) |-> RowNode(RunRows(r)[i])]

(* C33: a dry_run followed by an update on the same files and the same     *)
(* history.  Both fail at load or resolution with the same error or not at *)
(* all; the resolved sequences are equal; dry_run reports that sequence in *)
(* order and update attempts it in order, each stopping only at its own    *)
(* failure; dry_run leaves the history as it found it.                     *)
C33_DryRunMatchesUpdate ==
    /\ pc[2] = "begin" => HistoryUntouched
    /\ IsPrefix(Reported(1), ResolvedSequence(1))
    /\ (pc[1] = "done" /\ exit_code[1] = 0) => Reported(1) = ResolvedSequence(1)
    /\ pc[2] = "done" =>
          /\ (LoadFailed(1) \/ ResolutionFailed(1) \/ LoadFailed(2) \/ ResolutionFailed(2))
                => error[1] = error[2]
          /\ ResolvedSequence(2) = ResolvedSequence(1)
          /\ IsPrefix(Attempted(2), ResolvedSequence(1))
          /\ exit_code[2] = 0 => Attempted(2) = Reported(1) \/ exit_code[1] # 0

(* Both commands worked through the same change, an applied change left   *)
(* out by both.                                                            *)
C33_Witness ==
    /\ pc[2] = "done"
    /\ exit_code = [r \in Runs |-> 0]
    /\ Len(Reported(1)) = 1
    /\ Attempted(2) = Reported(1)
    /\ \E n \in FileIdentities : IsLoaded(n) /\ n \in applied_changes_from_db[1]

(* Both commands stopped at the same resolution error. *)
C33_WitnessError ==
    /\ pc[2] = "done"
    /\ ResolutionFailed(1)
    /\ error[1] = error[2]

(* C34: the applied set only grows.  An identity that has a row with       *)
(* status success has one after every step of every later update run, a    *)
(* run whose history query failed and a failing second application         *)
(* included.                                                               *)
C34_AppliedSetMonotonic ==
    [][\A n \in AllIdentities : HasSuccessRow(n) => HasSuccessRow(n)']_vars

(* Run 1 applied the change and recorded success; run 2 could not read the *)
(* history, applied the change again, failed, and no success row of the    *)
(* change is left.                                                         *)
C34_Witness ==
    \E n \in Identities :
        /\ AppliedBy(1, n) /\ exit_code[1] = 0
        /\ QueryFailed(2)
        /\ pc[2] = "done" /\ exit_code[2] = 1
        /\ \E k \in CallsFor(2, "execute_change", n) : ~calls[k].ok
        /\ ~HasSuccessRow(n)

(* The exception that sent run r into the failure handling, "none" if none. *)
HandledError(r) == IF "context" \in DOMAIN error[r] THEN error[r].context ELSE error[r]

(* A rendering or an engine call failed for identity n. *)
ApplyFailedFor(n) ==
    \E k \in DOMAIN calls :
        /\ calls[k].node = n
        /\ calls[k].op \in {"render_sql", "execute_change"}
        /\ ~calls[k].ok

(* C35: a row reads failed only if rendering or the engine failed for its  *)
(* change; in particular a change whose engine call returned and whose     *)
(* success write alone failed is not recorded as failed.                   *)
C35_FailedOnlyIfApplyFailed ==
    \A i \in DOMAIN history :
        history[i].status = "failed" => ApplyFailedFor(RowNode(history[i]))

(* The engine call of run 1 returned for the change, the write of success  *)
(* was refused, and the row of the change reads failed.                    *)
C35_Witness ==
    \E n \in Identities :
        /\ AppliedBy(1, n)
        /\ ~ApplyFailedFor(n)
        /\ HandledError(1) = [kind |-> "StoreError", nodes |-> {},
                              op |-> "update_status", node |-> n]
        /\ \E i \in DOMAIN history :
              RowNode(history[i]) = n /\ history[i].status = "failed" /\ history[i].run = 1

(* log_start raised in run r. *)
LogStartFailed(r) ==
    HandledError(r).kind = "StoreError" /\ HandledError(r).op = "log_start"

(* C36: after log_start has raised for a change, the run has rendered,     *)
(* executed and inserted rows for the changes before it only, it is in the *)
(* failure handling or has ended with a non-zero exit code, and the        *)
(* failure handling inserts no row.                                        *)
C36_LogStartFailureStopsRun ==
    /\ [](\A r \in Runs : LogStartFailed(r) =>
            /\ Len(CalledNodes(r, "render_sql")) = idx[r] - 1
            /\ Len(CalledNodes(r, "execute_change")) = idx[r] - 1
            /\ Len(RunRows(r)) = idx[r] - 1
            /\ NodeId(CurrentChange(r)) = HandledError(r).node
            /\ pc[r] \in {"except", "done"}
            /\ pc[r] = "done" => exit_code[r] # 0)
    /\ [][\A r \in Runs : (LogStartFailed(r) /\ pc[r] = "except") =>
                Len(history') = Len(history)]_vars

(* log_start raised for the second change of a run after the first was     *)
(* applied, and the run has ended.                                         *)
C36_Witness ==
    \E r \in Runs :
        /\ LogStartFailed(r)
        /\ idx[r] = 2
        /\ Len(changes_to_apply[r]) >= 3
        /\ pc[r] = "done"
        /\ "context" \in DOMAIN error[r]

(* C37: a pending change that lists its own identity in depends_on is a    *)
(* cycle of one node: resolution fails with the circular-dependency error, *)
(* the error names the change, no sequence is returned and the run writes  *)
(* no row and calls neither renderer nor engine.                           *)
C37_SelfDependencyIsCycle ==
    \A n \in Identities :
        (Resolved(1) /\ IsLoaded(n) /\ n \notin applied_changes_from_db[1]
            /\ Declares(n, n)) =>
            /\ error[1].kind = "cyclic"
            /\ n \in error[1].nodes
            /\ changes_to_apply[1] = <<>>
            /\ NothingExecuted(1)
            /\ pc[1] = "done" /\ exit_code[1] # 0

(* The only active edge leads from a change to itself, another change is   *)
(* pending beside it, and resolution has ended.                            *)
C37_Witness ==
    \E n \in Identities :
        /\ Resolved(1)
        /\ error[1] = [kind |-> "cyclic", nodes |-> {n}]
        /\ Declares(n, n)
        /\ Cardinality(DOMAIN in_degrees[1]) = 2

(* Some loaded entry of identity c lists d more than once in depends_on. *)
DeclaresTwice(c, d) ==
    \E i \in DOMAIN all_defined_changes :
        /\ NodeId(all_defined_changes[i]) = c
        /\ Cardinality({k \in DOMAIN all_defined_changes[i].depends_on :
                            all_defined_changes[i].depends_on[k] = d}) > 1

(* The positions of identity n in the sequence run r returned. *)
PlacesOf(r, n) == {k \in DOMAIN ResolvedSequence(r) : ResolvedSequence(r)[k] = n}

(* C38: a pending dependency D listed more than once in the depends_on of  *)
(* C is resolved as if listed once: unless the active edges hold a cycle,  *)
(* resolution raises no error and returns a sequence in which C stands     *)
(* exactly once, D exactly once and D before C.                            *)
C38_RepeatedDependency ==
    \A r \in Runs : \A c, d \in Identities :
        (Resolved(r) /\ c # d /\ DeclaresTwice(c, d) /\ IsPending(c) /\ IsPending(d)
            /\ ~ActiveCycleExists) =>
            /\ error[r] = NoError
            /\ Cardinality(PlacesOf(r, c)) = 1
            /\ Cardinality(PlacesOf(r, d)) = 1
            /\ \A i \in PlacesOf(r, d) : \A j \in PlacesOf(r, c) : i < j

(* C lists D twice, both are pending with a third change, and the sequence *)
(* of the three has been returned.                                         *)
C38_Witness ==
    \E c, d \in Identities :
        /\ Returned(1)
        /\ c # d /\ DeclaresTwice(c, d) /\ IsPending(c) /\ IsPending(d)
        /\ in_degrees[1][c] = 0
        /\ Len(ResolvedSequence(1)) = 3

(* The edges d -> n recorded in graph whose start d has not been emitted   *)
(* by run r, counted with repetitions.                                     *)
RECURSIVE OpenEdgesInto(_, _, _)
OpenEdgesInto(r, n, starts) ==
    IF starts = {} THEN 0
    ELSE LET d == CHOOSE x \in starts : TRUE
         IN Cardinality({k \in DOMAIN graph[r][d] : graph[r][d][k] = n})
              + OpenEdgesInto(r, n, starts \ {d})

(* The loop `while queue` of run r has ended with nodes left over. *)
SortIncomplete(r) ==
    /\ pc[r] = "kahn"
    /\ queue[r] = <<>>
    /\ Len(sorted_changes_nodes[r]) # Cardinality(DOMAIN in_degrees[r])

(* C39: while get_unapplied_changes sorts, every edge recorded in graph    *)
(* starts and ends at a pending node, the in-degree of a node is the       *)
(* number of its recorded edges whose start has not been emitted and so    *)
(* never negative, no node is emitted twice, and when the loop ends with   *)
(* nodes left over one of them has in-degree > 0: the "unexpected state"   *)
(* error is never raised.                                                  *)
C39_KahnInvariant ==
    \A r \in Runs :
        /\ \A d \in AllIdentities :
              graph[r][d] # <<>> =>
                  /\ d \in DOMAIN in_degrees[r]
                  /\ Range(graph[r][d]) \subseteq DOMAIN in_degrees[r]
        /\ \A n \in DOMAIN in_degrees[r] :
              /\ in_degrees[r][n] >= 0
              /\ in_degrees[r][n] =
                    OpenEdgesInto(r, n, AllIdentities \ Range(sorted_changes_nodes[r]))
        /\ Cardinality(Range(sorted_changes_nodes[r])) = Len(sorted_changes_nodes[r])
        /\ Range(sorted_changes_nodes[r]) \subseteq DOMAIN in_degrees[r]
        /\ SortIncomplete(r) => CyclicNodesInPending(in_degrees[r]) # {}
        /\ error[r].kind # "unexpected"

(* The loop has ended with two nodes left over, one of them entered by an  *)
(* edge that is listed twice.                                              *)
C39_Witness ==
    /\ SortIncomplete(1)
    /\ Len(sorted_changes_nodes[1]) = 1
    /\ Cardinality(DOMAIN in_degrees[1]) = 3
    /\ \E n \in DOMAIN in_degrees[1] : in_degrees[1][n] = 2

====
